---------------------------- MODULE Spec2Model ----------------------------
(***************************************************************************)
(* A model of the EPA Envirofacts MCP server (zachegner/envirofacts-mcp):  *)
(* the HTTP client with its retry decorator, the tool entry points, the    *)
(* facility aggregation and the distance filter.                           *)
(*                                                                         *)
(* Each subsystem has its own specification over its own variables; the    *)
(* variables of the other subsystems stay at their initial values.         *)
(*   SpecHttp : EPAClient.query_table / _execute_query / _build_query_url  *)
(*   SpecDist : filter_by_distance on bounded inputs                       *)
(*   SpecAgg  : aggregate_facilities on bounded inputs                     *)
(*   SpecTool : the four tool entry points, one call at a time             *)
(*   SpecSum  : summarize_releases on bounded inputs                       *)
(*   SpecFormat : format_environmental_summary on bounded inputs           *)
(*   SpecCache : one GeocodingCache under set, get and clear               *)
(*   SpecGeo  : geocode_location called again and again                    *)
(*   SpecCompliance : the status the ComplianceClient lookups assign       *)
(*   SpecBatch : the by-state batch queries of the program clients         *)
(*   SpecRegistry : ComplianceClient.get_compliance_by_registry_id         *)
(*   SpecTri  : TRIClient.get_chemical_releases on bounded inputs          *)
(*   SpecOverlap : two overlapping geocode_location calls                  *)
(*   SpecClients : the EPA clients a tool call opens and closes            *)
(***************************************************************************)
EXTENDS Integers, Sequences, FiniteSets, TLC

VARIABLES
    \* ---- EPAClient.query_table (src/src/client/base.py) ----
    qpc,          \* "idle" | "attempt" | "done": position of one query_table call
    qargs,        \* the arguments of the call
    url,          \* the URL _build_query_url made for it
    attempts,     \* the outcomes of the HTTP GETs issued so far by this call
    execResult,   \* what _execute_query returned or raised
    tableResult,  \* what query_table returned or raised
    \* ---- filter_by_distance (src/src/utils/distance.py) ----
    dpc,          \* "ready" | "done"
    dIn,          \* the arguments: facilities, center, max_distance_miles
    dOut,         \* the list returned
    \* ---- aggregate_facilities (src/src/utils/aggregation.py) ----
    apc,          \* "ready" | "done"
    aIn,          \* the arguments: the four source lists
    aOut,         \* the list returned
    \* ---- the four tool entry points (src/src/tools) ----
    tpc,          \* position of one tool call: "idle", ..., "done"
    tool,         \* the tool called
    targs,        \* the caller's parameters
    cache,        \* _geocoding_cache: the items in insertion order
    geoOutcome,   \* what the external geocoder did, if it was invoked
    locationInfo, \* the LocationInfo the summary works with
    geocoderCalls,\* requests sent to the external geocoder by this call
    epaQueries,   \* EPA client queries started by this call
    frsFilters,   \* the filters FRSClient.search_facilities queried with
    clientResult, \* what the EPA client returned or raised to the tool
    branches,     \* the five fan-out coroutines: status and result
    facilityInfo, \* the compliance history's facility_info
    toolResult,   \* what the tool returned or raised
    cacheMaxSize, \* max_size of the GeocodingCache instance
    \* ---- a function of the utilities or clients applied to bounded inputs ----
    fpc,          \* "ready" | "done"
    fIn,          \* its arguments
    fOut          \* what it returned

httpVars == <<qpc, qargs, url, attempts, execResult, tableResult>>

distVars == <<dpc, dIn, dOut>>

aggVars == <<apc, aIn, aOut>>

toolVars == <<tpc, tool, targs, cache, geoOutcome, locationInfo, geocoderCalls,
              epaQueries, frsFilters, clientResult, branches, facilityInfo,
              toolResult, cacheMaxSize>>

funVars == <<fpc, fIn, fOut>>

vars == <<qpc, qargs, url, attempts, execResult, tableResult,
          dpc, dIn, dOut, apc, aIn, aOut,
          tpc, tool, targs, cache, geoOutcome, locationInfo, geocoderCalls,
          epaQueries, frsFilters, clientResult, branches, facilityInfo,
          toolResult, cacheMaxSize,
          fpc, fIn, fOut>>

\* What the actions of one subsystem leave alone: the other subsystems.
HttpFrame == UNCHANGED <<distVars, aggVars, toolVars, funVars>>

DistFrame == UNCHANGED <<httpVars, aggVars, toolVars, funVars>>

AggFrame == UNCHANGED <<httpVars, distVars, toolVars, funVars>>

ToolFrame == UNCHANGED <<httpVars, distVars, aggVars, funVars, cacheMaxSize>>

FunFrame == UNCHANGED <<httpVars, distVars, aggVars, toolVars>>

(***************************************************************************)
(* Results of a call: a returned value or a raised exception.              *)
(***************************************************************************)
NoJson == [type |-> "none", items |-> <<>>, keys |-> {}]

Return(v) == [kind |-> "return", exc |-> "", msg |-> "", value |-> v]

Raise(e, m) == [kind |-> "raise", exc |-> e, msg |-> m, value |-> NoJson]

Pending == [kind |-> "pending", exc |-> "", msg |-> "", value |-> NoJson]

(***************************************************************************)
(* _build_query_url: the path segments, joined with "/".                   *)
(***************************************************************************)
BaseUrl == "https://data.epa.gov/efservice"

RECURSIVE Join(_)
Join(parts) ==
    IF Len(parts) = 0 THEN ""
    ELSE IF Len(parts) = 1 THEN parts[1]
    ELSE parts[1] \o "/" \o Join(Tail(parts))

RECURSIVE ConditionSegments(_, _)
ConditionSegments(column, conditions) ==
    IF conditions = <<>> THEN <<>>
    ELSE <<column, conditions[1].operator, conditions[1].value>>
            \o ConditionSegments(column, Tail(conditions))

RECURSIVE FilterSegments(_)
FilterSegments(filters) ==
    IF filters = <<>> THEN <<>>
    ELSE ConditionSegments(filters[1].column, filters[1].conditions)
            \o FilterSegments(Tail(filters))

RECURSIVE JoinSegments(_)
JoinSegments(joins) ==
    IF joins = <<>> THEN <<>>
    ELSE <<"join", joins[1]>> \o JoinSegments(Tail(joins))

\* A builder that puts the sort column in front of the window.
build_query_url_SortBeforeWindow(table, filters, joins, sort, limit, offset) ==
    Join(<<BaseUrl, table>>
         \o FilterSegments(filters)
         \o JoinSegments(joins)
         \o (IF sort # "" THEN <<sort>> ELSE <<>>)
         \o <<ToString(offset + 1) \o ":" \o ToString(offset + limit)>>
         \o <<"JSON">>)

build_query_url(table, filters, joins, sort, limit, offset) ==
    Join(<<BaseUrl, table>>
         \o FilterSegments(filters)
         \o JoinSegments(joins)
         \o <<ToString(offset + 1) \o ":" \o ToString(offset + limit)>>
         \o (IF sort # "" THEN <<sort>> ELSE <<>>)
         \o <<"JSON">>)

(***************************************************************************)
(* The HTTP layer underneath: what one client.get(url) can end in.         *)
(***************************************************************************)
Statuses == {200, 301, 404, 429, 500, 503}

\* Response bodies as received, and what response.json() makes of them.
Bodies == {"[]", "[{\"id\":1},{\"id\":2}]", "{\"results\":[{\"id\":1}]}",
           "{\"error\":\"x\"}", "\"text\"", "42", "null", "<html>"}

response_json(body) ==
    CASE body = "[]" -> [type |-> "list", items |-> <<>>, keys |-> {}]
      [] body = "[{\"id\":1},{\"id\":2}]" ->
            [type |-> "list", items |-> <<"id1", "id2">>, keys |-> {}]
      [] body = "{\"results\":[{\"id\":1}]}" ->
            [type |-> "dict", items |-> <<"id1">>, keys |-> {"results"}]
      [] body = "{\"error\":\"x\"}" ->
            [type |-> "dict", items |-> <<>>, keys |-> {"error"}]
      [] body = "\"text\"" -> [type |-> "str", items |-> <<>>, keys |-> {}]
      [] body = "42" -> [type |-> "int", items |-> <<>>, keys |-> {}]
      [] body = "null" -> [type |-> "null", items |-> <<>>, keys |-> {}]
      [] OTHER -> [type |-> "JSONDecodeError", items |-> <<>>, keys |-> {}]

\* len(data) is defined for lists, dicts and strings and raises TypeError otherwise.
HasLen(data) == data.type \in {"list", "dict", "str"}

GetOutcomes ==
    {[kind |-> "timeout", status |-> 0, body |-> ""],
     [kind |-> "network", status |-> 0, body |-> ""]}
    \cup {[kind |-> "response", status |-> s, body |-> ""] : s \in Statuses \ {200}}
    \cup {[kind |-> "response", status |-> 200, body |-> b] : b \in Bodies}

\* response.raise_for_status() raises HTTPStatusError unless the status is 2xx.
IsSuccess(status) == status \in 200..299

(***************************************************************************)
(* One run of the body of _execute_query on the outcome of client.get.     *)
(***************************************************************************)
execute_query_body(o) ==
    IF o.kind = "timeout" THEN Raise("EPATimeoutError", "Request timed out")
    ELSE IF o.kind = "network" THEN Raise("EPANetworkError", "Network error")
    ELSE IF ~IsSuccess(o.status) THEN
        IF o.status = 429 THEN Raise("EPAAPIError", "Rate limit exceeded")
        ELSE IF o.status >= 500 THEN Raise("EPAAPIError", "EPA API server error")
        ELSE Raise("EPAAPIError", "EPA API error")
    ELSE LET data == response_json(o.body) IN
        IF data.type = "JSONDecodeError"
        THEN Raise("EPAAPIError", "Invalid JSON response")
        ELSE IF ~HasLen(data) THEN Raise("TypeError", "object has no len()")
        ELSE Return(data)

(***************************************************************************)
(* The @retry decorator of _execute_query.                                 *)
(***************************************************************************)
stop_after_attempt == 3

\* retry_if_exception_type: the exception types the decorator retries on.
RetryTypes == {"httpx.TimeoutException", "httpx.NetworkError", "httpx.HTTPStatusError"}

retry_if_exception_type(r) == r.kind = "raise" /\ r.exc \in RetryTypes

(***************************************************************************)
(* query_table, after _execute_query has returned or raised.               *)
(***************************************************************************)
JsonList(items) == [type |-> "list", items |-> items, keys |-> {}]

query_table_unwrap(r) ==
    IF r.kind = "raise" THEN Raise("EPAAPIError", "Query failed")
    ELSE IF r.value.type = "list" THEN Return(r.value)
    ELSE IF r.value.type = "dict" /\ "results" \in r.value.keys
         THEN Return(JsonList(r.value.items))
    ELSE Return(JsonList(<<>>))

(***************************************************************************)
(* The arguments the model calls query_table with.                         *)
(***************************************************************************)
Tables == {"frs.frs_facilities", "tri.tri_facility"}

FilterChoices ==
    {<<>>,
     <<[column |-> "state_abbr",
        conditions |-> <<[operator |-> "equals", value |-> "CA"]>>]>>,
     <<[column |-> "state_abbr",
        conditions |-> <<[operator |-> "equals", value |-> "NY"]>>],
       [column |-> "latitude",
        conditions |-> <<[operator |-> "greaterThan", value |-> "40.0"],
                         [operator |-> "lessThan", value |-> "41.0"]>>]>>}

JoinChoices == {<<>>, <<"tri.tri_reporting_form">>}

SortChoices == {"", "facility_name"}

LimitChoices == {10, 50}

OffsetChoices == {0, 100}

QueryArgs ==
    [table : Tables, filters : FilterChoices, joins : JoinChoices,
     sort : SortChoices, limit : LimitChoices, offset : OffsetChoices]

NoArgs == [table |-> "", filters |-> <<>>, joins |-> <<>>, sort |-> "",
           limit |-> 0, offset |-> 0]

\* query_table is called: the URL is built and the first attempt is due.
QueryTableCall ==
    /\ qpc = "idle"
    /\ \E a \in QueryArgs :
        /\ qargs' = a
        /\ url' = build_query_url(a.table, a.filters, a.joins, a.sort,
                                  a.limit, a.offset)
    /\ qpc' = "attempt"
    /\ UNCHANGED <<attempts, execResult, tableResult>>
    /\ HttpFrame

\* One attempt of _execute_query under the retry decorator: the GET is issued,
\* the body runs, and the decorator either schedules another attempt or lets
\* the result out, upon which query_table finishes.
ExecuteAttempt ==
    /\ qpc = "attempt"
    /\ \E o \in GetOutcomes :
        LET r == execute_query_body(o)
            n == Len(attempts) + 1
        IN  /\ attempts' = Append(attempts, o)
            /\ IF retry_if_exception_type(r) /\ n < stop_after_attempt
               THEN /\ qpc' = "attempt"
                    /\ UNCHANGED <<execResult, tableResult>>
               ELSE /\ qpc' = "done"
                    /\ execResult' = r
                    /\ tableResult' = query_table_unwrap(r)
    /\ UNCHANGED <<qargs, url>>
    /\ HttpFrame


(***************************************************************************)
(* Claims about the HTTP client (checked under SpecHttp).                  *)
(***************************************************************************)
LastAttempt == attempts[Len(attempts)]

EPAErrors == {"EPATimeoutError", "EPANetworkError", "EPAAPIError"}

ValidJsonReceived(o) ==
    /\ o.kind = "response"
    /\ IsSuccess(o.status)
    /\ response_json(o.body).type # "JSONDecodeError"

\* C1: a timeout or network failure is retried, so EPATimeoutError and
\* EPANetworkError leave _execute_query only after the third failed attempt.
C1_TransientFailureRetriedThreeTimes ==
    (qpc = "done" /\ execResult.exc \in {"EPATimeoutError", "EPANetworkError"})
        => Len(attempts) = stop_after_attempt

\* C5: every failure of _execute_query is classified into exactly one EPA
\* error, and no exception of another type escapes.
C5_FailuresClassifiedNothingElseEscapes ==
    qpc = "done" =>
        /\ LastAttempt.kind = "timeout"
            => (execResult.kind = "raise" /\ execResult.exc = "EPATimeoutError")
        /\ LastAttempt.kind = "network"
            => (execResult.kind = "raise" /\ execResult.exc = "EPANetworkError")
        /\ (LastAttempt.kind = "response" /\ LastAttempt.status = 429)
            => execResult = Raise("EPAAPIError", "Rate limit exceeded")
        /\ (LastAttempt.kind = "response" /\ LastAttempt.status >= 500)
            => execResult = Raise("EPAAPIError", "EPA API server error")
        /\ (LastAttempt.kind = "response" /\ ~IsSuccess(LastAttempt.status))
            => (execResult.kind = "raise" /\ execResult.exc = "EPAAPIError")
        /\ (LastAttempt.kind = "response" /\ IsSuccess(LastAttempt.status)
                /\ response_json(LastAttempt.body).type = "JSONDecodeError")
            => execResult = Raise("EPAAPIError", "Invalid JSON response")
        /\ execResult.kind = "raise" => execResult.exc \in EPAErrors

\* C6: a call issues at most three GETs and ends with a parsed body or an EPA
\* error; it issues exactly one GET when the first attempt succeeds or gets a
\* 4xx status other than 429.
C6_AtMostThreeAttemptsEndsInBodyOrEPAError ==
    /\ Len(attempts) <= stop_after_attempt
    /\ qpc = "attempt" => Len(attempts) < stop_after_attempt
    /\ qpc = "done" =>
        /\ execResult.kind = "return" \/ execResult.exc \in EPAErrors
        /\ (attempts[1].kind = "response"
                /\ (IsSuccess(attempts[1].status)
                    \/ (attempts[1].status \in 400..499 /\ attempts[1].status # 429)))
            => Len(attempts) = 1

\* C7: query_table returns a bare list itself, the value under 'results' of a
\* dict, and an empty list for every other successfully received shape; when
\* the underlying query raises it raises EPAAPIError.
C7_QueryTableUnwrapsEveryReceivedShape ==
    qpc = "done" =>
        /\ ValidJsonReceived(LastAttempt) =>
            LET data == response_json(LastAttempt.body) IN
            tableResult =
                IF data.type = "list" THEN Return(data)
                ELSE IF data.type = "dict" /\ "results" \in data.keys
                     THEN Return(JsonList(data.items))
                ELSE Return(JsonList(<<>>))
        /\ execResult.kind = "raise"
            => (tableResult.kind = "raise" /\ tableResult.exc = "EPAAPIError")


(***************************************************************************)
(* Entities.  An absent Optional number is None; absent coordinates are a  *)
(* record with present = FALSE.  Latitudes are in hundredths of a degree   *)
(* and distances in tenths of a mile.  The model places every point on one *)
(* meridian, where the haversine formula reduces to R * |delta latitude|.  *)
(***************************************************************************)
None == -1

NoCoordinates == [present |-> FALSE, latitude |-> 0, longitude |-> 0]

Coordinates(lat) == [present |-> TRUE, latitude |-> lat, longitude |-> -7400]

FacilityInfo(id, name, state, coords, programs, distance) ==
    [registry_id |-> id, name |-> name, state |-> state, coordinates |-> coords,
     programs |-> programs, distance_miles |-> distance]

Abs(x) == IF x < 0 THEN -x ELSE x

earth_radius_miles == 3959

\* haversine_distance for two points of one meridian: a = sin^2(dlat/2),
\* c = 2*asin(sqrt(a)) = |dlat| in radians, with pi taken as 355/113.
haversine_distance(coord1, coord2) ==
    (earth_radius_miles * 355 * Abs(coord2.latitude - coord1.latitude))
        \div (113 * 1800)

(***************************************************************************)
(* filter_by_distance                                                      *)
(***************************************************************************)
\* float('inf') in the sort key.
Infinity == 1000000

\* FilterLoop with the comparison distance < max_distance_miles.
RECURSIVE FilterLoop_StrictlyInside(_, _, _)
FilterLoop_StrictlyInside(facilities, center, max_distance_miles) ==
    IF facilities = <<>> THEN <<>>
    ELSE LET facility == Head(facilities)
             rest == FilterLoop_StrictlyInside(Tail(facilities), center,
                                               max_distance_miles)
         IN  IF facility.coordinates.present
             THEN LET distance == haversine_distance(center, facility.coordinates)
                  IN  IF distance < max_distance_miles
                      THEN <<[facility EXCEPT !.distance_miles = distance]>> \o rest
                      ELSE rest
             ELSE rest

\* The loop: the facilities that have coordinates and lie within the
\* distance, each with distance_miles set, in input order.
RECURSIVE FilterLoop(_, _, _)
FilterLoop(facilities, center, max_distance_miles) ==
    IF facilities = <<>> THEN <<>>
    ELSE LET facility == Head(facilities)
             rest == FilterLoop(Tail(facilities), center, max_distance_miles)
         IN  IF facility.coordinates.present
             THEN LET distance == haversine_distance(center, facility.coordinates)
                  IN  IF distance <= max_distance_miles
                      THEN <<[facility EXCEPT !.distance_miles = distance]>> \o rest
                      ELSE rest
             ELSE rest

\* key=lambda f: f.distance_miles or float('inf')
DistanceSortKey(f) ==
    IF f.distance_miles = None \/ f.distance_miles = 0
    THEN Infinity ELSE f.distance_miles

\* list.sort is stable: an element goes after the elements whose key is not larger.
RECURSIVE InsertByDistance(_, _)
InsertByDistance(sorted, f) ==
    IF sorted = <<>> THEN <<f>>
    ELSE IF DistanceSortKey(Head(sorted)) <= DistanceSortKey(f)
         THEN <<Head(sorted)>> \o InsertByDistance(Tail(sorted), f)
         ELSE <<f>> \o sorted

RECURSIVE SortByDistance(_)
SortByDistance(list) ==
    IF list = <<>> THEN <<>>
    ELSE InsertByDistance(SortByDistance(SubSeq(list, 1, Len(list) - 1)),
                          list[Len(list)])

filter_by_distance(facilities, center, max_distance_miles) ==
    SortByDistance(FilterLoop(facilities, center, max_distance_miles))

\* The inputs of the model.
MaxFiltered == 3

DistPool ==
    {FacilityInfo(id, "Plant", "NY", c, {"TRI"}, None) :
        id \in {"110", "220"},
        c \in {NoCoordinates, Coordinates(4071), Coordinates(4078),
               Coordinates(4100)}}

SeqsUpTo(S, n) == UNION {[1..k -> S] : k \in 0..n}

FilterByDistance ==
    /\ dpc = "ready"
    /\ dOut' = filter_by_distance(dIn.facilities, dIn.center,
                                  dIn.max_distance_miles)
    /\ dpc' = "done"
    /\ UNCHANGED dIn
    /\ DistFrame


(***************************************************************************)
(* aggregate_facilities.  facility_map is a dict keyed by registry_id: a   *)
(* sequence of facilities with distinct registry_ids, in insertion order   *)
(* (assigning to a key that exists keeps the key's position).              *)
(***************************************************************************)
WaterSystem(id, name, state, coords, population, distance) ==
    [system_id |-> id, name |-> name, state |-> state, coordinates |-> coords,
     population_served |-> population, distance_miles |-> distance]

InMap(facility_map, key) ==
    \E i \in 1..Len(facility_map) : facility_map[i].registry_id = key

MapIndex(facility_map, key) ==
    CHOOSE i \in 1..Len(facility_map) : facility_map[i].registry_id = key

\* facility_map[facility.registry_id] = facility
MapAssign(facility_map, facility) ==
    IF InMap(facility_map, facility.registry_id)
    THEN [facility_map EXCEPT ![MapIndex(facility_map, facility.registry_id)] = facility]
    ELSE Append(facility_map, facility)

\* existing.programs = list(set(existing.programs) | set(facility.programs))
MergePrograms(facility_map, facility) ==
    LET i == MapIndex(facility_map, facility.registry_id)
    IN  [facility_map EXCEPT ![i].programs = @ \cup facility.programs]

RECURSIVE AddFrs(_, _)
AddFrs(facility_map, frs_facilities) ==
    IF frs_facilities = <<>> THEN facility_map
    ELSE LET facility == Head(frs_facilities)
         IN  AddFrs(IF facility.registry_id # ""
                    THEN MapAssign(facility_map, facility)
                    ELSE facility_map,
                    Tail(frs_facilities))

\* The loop over tri_facilities and the identical loop over rcra_facilities.
RECURSIVE AddMerging(_, _)
AddMerging(facility_map, facilities) ==
    IF facilities = <<>> THEN facility_map
    ELSE LET facility == Head(facilities)
         IN  AddMerging(IF InMap(facility_map, facility.registry_id)
                        THEN MergePrograms(facility_map, facility)
                        ELSE MapAssign(facility_map, facility),
                        Tail(facilities))

SystemAsFacility(system) ==
    FacilityInfo(system.system_id, system.name, system.state, system.coordinates,
                 {"SDWIS"}, system.distance_miles)

RECURSIVE AddSdwis(_, _)
AddSdwis(facility_map, sdwis_systems) ==
    IF sdwis_systems = <<>> THEN facility_map
    ELSE AddSdwis(MapAssign(facility_map, SystemAsFacility(Head(sdwis_systems))),
                  Tail(sdwis_systems))

aggregate_facilities(frs_facilities, tri_facilities, rcra_facilities, sdwis_systems) ==
    AddSdwis(AddMerging(AddMerging(AddFrs(<<>>, frs_facilities),
                                   tri_facilities),
                        rcra_facilities),
             sdwis_systems)

\* The inputs of the model: each source names its entities after itself, so
\* that the fields of an output entity tell where it came from.
MaxFrs == 2
MaxTri == 2
MaxRcra == 1
MaxSdwis == 1

FrsPool ==
    {FacilityInfo(id, v.name, "NY", NoCoordinates, v.programs, None) :
        id \in {"", "110", "220"},
        v \in {[name |-> "frs-1", programs |-> {"FRS"}],
               [name |-> "frs-2", programs |-> {"FRS", "ICIS"}]}}

TriPool ==
    {FacilityInfo(id, v.name, "NY", Coordinates(4078), {"TRI"}, v.distance) :
        id \in {"", "110"},
        v \in {[name |-> "tri-1", distance |-> 48],
               [name |-> "tri-2", distance |-> None]}}

RcraPool ==
    {FacilityInfo(id, "rcra-1", "NY", Coordinates(4071), {"RCRA"}, 0) :
        id \in {"110", "330"}}

SdwisPool ==
    {WaterSystem(id, "water-1", "NY", NoCoordinates, 1000, None) :
        id \in {"110", "NY0001"}}

AggregateFacilities ==
    /\ apc = "ready"
    /\ aOut' = aggregate_facilities(aIn.frs, aIn.tri, aIn.rcra, aIn.sdwis)
    /\ apc' = "done"
    /\ UNCHANGED aIn
    /\ AggFrame

(***************************************************************************)
(* Python values of the tool parameters.  A str is a sequence of           *)
(* one-character strings, so that strip, upper, lower, len, isdigit and    *)
(* zfill are computed; an Optional parameter is PyNone when not given.     *)
(***************************************************************************)
PyNone == [given |-> FALSE, isint |-> FALSE, chars |-> <<>>, n |-> 0]

PyStr(chars) == [given |-> TRUE, isint |-> FALSE, chars |-> chars, n |-> 0]

PyInt(n) == [given |-> TRUE, isint |-> TRUE, chars |-> <<>>, n |-> n]

\* bool(v): None, "" and 0 are false.
Truthy(v) == v.given /\ (IF v.isint THEN v.n # 0 ELSE v.chars # <<>>)

IsSpace(c) == c = " "

RECURSIVE LStrip(_)
LStrip(chars) ==
    IF chars # <<>> /\ IsSpace(Head(chars)) THEN LStrip(Tail(chars)) ELSE chars

RECURSIVE RStrip(_)
RStrip(chars) ==
    IF chars # <<>> /\ IsSpace(chars[Len(chars)])
    THEN RStrip(SubSeq(chars, 1, Len(chars) - 1)) ELSE chars

Strip(chars) == RStrip(LStrip(chars))

LowerLetters == <<"a", "b", "c", "e", "i", "l", "m", "n", "o", "p", "r", "s", "t", "v", "y">>

UpperLetters == <<"A", "B", "C", "E", "I", "L", "M", "N", "O", "P", "R", "S", "T", "V", "Y">>

UpperChar(c) ==
    IF \E i \in 1..Len(LowerLetters) : LowerLetters[i] = c
    THEN UpperLetters[CHOOSE i \in 1..Len(LowerLetters) : LowerLetters[i] = c]
    ELSE c

LowerChar(c) ==
    IF \E i \in 1..Len(UpperLetters) : UpperLetters[i] = c
    THEN LowerLetters[CHOOSE i \in 1..Len(UpperLetters) : UpperLetters[i] = c]
    ELSE c

Upper(chars) == [i \in 1..Len(chars) |-> UpperChar(chars[i])]

Lower(chars) == [i \in 1..Len(chars) |-> LowerChar(chars[i])]

Digits == <<"0", "1", "2", "3", "4", "5", "6", "7", "8", "9">>

IsDigit(c) == \E i \in 1..10 : Digits[i] = c

\* ''.join(c for c in chars if c.isdigit())
OnlyDigits(chars) == SelectSeq(chars, IsDigit)

\* A zfill that pads nothing.
ZFill_Unpadded(chars, width) == chars

RECURSIVE ZFill(_, _)
ZFill(chars, width) ==
    IF Len(chars) >= width THEN chars ELSE ZFill(<<"0">> \o chars, width)

\* str(n) for n >= 0
RECURSIVE StrOfNat(_)
StrOfNat(n) ==
    IF n < 10 THEN <<Digits[n + 1]>>
    ELSE StrOfNat(n \div 10) \o <<Digits[(n % 10) + 1]>>

\* str(v) of a given value
PyToStr(v) == IF v.isint THEN StrOfNat(v.n) ELSE v.chars

\* The characters as one string.
RECURSIVE Text(_)
Text(chars) == IF chars = <<>> THEN "" ELSE Head(chars) \o Text(Tail(chars))

(***************************************************************************)
(* Parameter validation of the four tool entry points.  Each returns the   *)
(* ValueError message, or "" with the cleaned parameters.                  *)
(***************************************************************************)
\* get_environmental_summary_by_location; the radius is in tenths of a mile.
RadiusMin == 1
RadiusMax == 1000

validate_summary_RadiusUnchecked(a) ==
    IF ~Truthy(a.location) \/ Strip(a.location.chars) = <<>>
    THEN "Location cannot be empty"
    ELSE ""

validate_summary(a) ==
    IF ~Truthy(a.location) \/ Strip(a.location.chars) = <<>>
    THEN "Location cannot be empty"
    ELSE IF ~(RadiusMin <= a.radius_miles /\ a.radius_miles <= RadiusMax)
    THEN "Radius must be between 0.1 and 100.0 miles"
    ELSE ""

\* search_facilities
LimitMax == 1000

ZipDigits(zip_code) == OnlyDigits(Strip(PyToStr(zip_code)))

validate_search(a) ==
    IF ~(\/ Truthy(a.facility_name) \/ Truthy(a.naics_code) \/ Truthy(a.state)
         \/ Truthy(a.zip_code) \/ Truthy(a.city))
    THEN "At least one search parameter must be provided"
    ELSE IF ~(1 <= a.limit /\ a.limit <= LimitMax)
    THEN "Limit must be between 1 and 1000"
    ELSE IF Truthy(a.facility_name) /\ Strip(a.facility_name.chars) = <<>>
    THEN "Facility name cannot be empty"
    ELSE IF Truthy(a.naics_code) /\ Strip(a.naics_code.chars) = <<>>
    THEN "NAICS code cannot be empty"
    ELSE IF Truthy(a.state) /\ Len(Upper(Strip(a.state.chars))) # 2
    THEN "State code must be 2 letters"
    ELSE IF Truthy(a.zip_code) /\ Len(ZipDigits(a.zip_code)) > 5
    THEN "ZIP code must be 5 digits or less"
    ELSE IF Truthy(a.city) /\ Strip(a.city.chars) = <<>>
    THEN "City cannot be empty"
    ELSE ""

CleanStr(v) == IF Truthy(v) THEN PyStr(Strip(v.chars)) ELSE v

clean_search(a) ==
    [a EXCEPT !.facility_name = CleanStr(@),
              !.naics_code = CleanStr(@),
              !.state = IF Truthy(@) THEN PyStr(Upper(Strip(@.chars))) ELSE @,
              !.zip_code = IF Truthy(@) THEN PyStr(ZFill(ZipDigits(@), 5)) ELSE @,
              !.city = CleanStr(@)]

\* FRSClient.search_facilities: the filters it queries frs.frs_facility_site
\* with, built from the parameters the tool hands over; the state and the ZIP
\* code are cleaned once more on the way.
Filter(column, operator, value) == [column |-> column, operator |-> operator, value |-> value]

frs_search_filters(a) ==
    (IF Truthy(a.facility_name)
     THEN <<Filter("primary_name", "contains", Strip(a.facility_name.chars))>>
     ELSE <<>>)
    \o (IF Truthy(a.naics_code)
        THEN <<Filter("naics_code", "equals", Strip(a.naics_code.chars))>>
        ELSE <<>>)
    \o (IF Truthy(a.state)
        THEN <<Filter("state_code", "equals", Upper(Strip(a.state.chars)))>>
        ELSE <<>>)
    \o (IF Truthy(a.zip_code)
        THEN <<Filter("postal_code", "equals", ZFill(ZipDigits(a.zip_code), 5))>>
        ELSE <<>>)
    \o (IF Truthy(a.city)
        THEN <<Filter("city_name", "contains", Strip(a.city.chars))>>
        ELSE <<>>)

\* get_facility_compliance_history
YearsMax == 20

validate_compliance(a) ==
    IF ~Truthy(a.registry_id) \/ Strip(a.registry_id.chars) = <<>>
    THEN "Registry ID cannot be empty"
    ELSE IF ~(1 <= a.years /\ a.years <= YearsMax)
    THEN "Years must be between 1 and 20"
    ELSE IF Truthy(a.program)
            /\ Text(Upper(a.program.chars)) \notin {"TRI", "RCRA"}
    THEN "Program must be 'TRI' or 'RCRA'"
    ELSE ""

clean_compliance(a) ==
    [a EXCEPT !.registry_id = PyStr(Strip(@.chars)),
              !.program = IF Truthy(@) THEN PyStr(Upper(Strip(@.chars))) ELSE @]

\* _get_chemical_release_data_impl, and the check TRIClient.get_chemical_releases
\* repeats on the cleaned parameters before it queries.
validate_releases(a) ==
    IF ~(\/ Truthy(a.chemical_name) \/ Truthy(a.cas_number) \/ Truthy(a.state)
         \/ Truthy(a.county))
    THEN "At least one search parameter must be provided"
    ELSE IF a.limit <= 0 \/ a.limit > LimitMax
    THEN "Limit must be between 1 and 1000"
    ELSE IF Truthy(a.state) /\ Len(a.state.chars) # 2
    THEN "State must be a two-letter code"
    ELSE ""

clean_releases(a) ==
    [a EXCEPT !.chemical_name = CleanStr(@),
              !.cas_number = CleanStr(@),
              !.state = IF Truthy(@) THEN PyStr(Upper(Strip(@.chars))) ELSE @,
              !.county = CleanStr(@)]

get_chemical_releases_check(a) ==
    IF ~(\/ Truthy(a.chemical_name) \/ Truthy(a.cas_number) \/ Truthy(a.state)
         \/ Truthy(a.county))
    THEN "At least one search parameter must be provided"
    ELSE ""

(***************************************************************************)
(* rank_facilities, summarize_releases and format_environmental_summary.   *)
(***************************************************************************)
RankKey(f) == IF f.distance_miles # None THEN f.distance_miles ELSE Infinity

RECURSIVE InsertByRank(_, _)
InsertByRank(sorted, f) ==
    IF sorted = <<>> THEN <<f>>
    ELSE IF RankKey(Head(sorted)) <= RankKey(f)
         THEN <<Head(sorted)>> \o InsertByRank(Tail(sorted), f)
         ELSE <<f>> \o sorted

RECURSIVE SortByRank(_)
SortByRank(list) ==
    IF list = <<>> THEN <<>>
    ELSE InsertByRank(SortByRank(SubSeq(list, 1, Len(list) - 1)), list[Len(list)])

\* list[:n]
Take(list, n) == SubSeq(list, 1, IF Len(list) < n THEN Len(list) ELSE n)

rank_facilities(facilities, limit) == Take(SortByRank(facilities), limit)

ChemicalRelease(facility_id, chemical_name, cas, year, air, water, land, inj) ==
    [facility_id |-> facility_id, chemical_name |-> chemical_name,
     cas_number |-> cas, reporting_year |-> year, air_release |-> air,
     water_release |-> water, land_release |-> land,
     underground_injection |-> inj]

\* x or 0
OrZero(x) == IF x = None THEN 0 ELSE x

\* ChemicalRelease.total_release
total_release(r) ==
    OrZero(r.air_release) + OrZero(r.water_release) + OrZero(r.land_release)
        + OrZero(r.underground_injection)

\* sum(values)
RECURSIVE Sum(_)
Sum(values) == IF values = <<>> THEN 0 ELSE Head(values) + Sum(Tail(values))

AirOf(r) == OrZero(r.air_release)
WaterOf(r) == OrZero(r.water_release)
LandOf(r) == OrZero(r.land_release)
UndergroundOf(r) == OrZero(r.underground_injection)

\* The distinct values of a list in order of first occurrence (the key order of
\* a dict or Counter filled from the list).
RECURSIVE FirstOccurrences(_)
FirstOccurrences(list) ==
    IF list = <<>> THEN <<>>
    ELSE LET front == FirstOccurrences(SubSeq(list, 1, Len(list) - 1))
             last == list[Len(list)]
         IN  IF \E i \in 1..Len(front) : front[i] = last THEN front
             ELSE Append(front, last)

ChemicalNames(releases) == [i \in 1..Len(releases) |-> releases[i].chemical_name]

ReportingYears(releases) == [i \in 1..Len(releases) |-> releases[i].reporting_year]

ChemicalTotal(releases, chem) ==
    Sum([i \in 1..Len(releases) |->
            IF releases[i].chemical_name = chem THEN total_release(releases[i])
            ELSE 0])

\* Counter(chemical_totals).most_common(10): by total, largest first, ties in
\* insertion order.
RECURSIVE InsertByTotal(_, _)
InsertByTotal(sorted, e) ==
    IF sorted = <<>> THEN <<e>>
    ELSE IF Head(sorted).total_release >= e.total_release
         THEN <<Head(sorted)>> \o InsertByTotal(Tail(sorted), e)
         ELSE <<e>> \o sorted

RECURSIVE SortByTotal(_)
SortByTotal(list) ==
    IF list = <<>> THEN <<>>
    ELSE InsertByTotal(SortByTotal(SubSeq(list, 1, Len(list) - 1)), list[Len(list)])

TopChemicalsLimit == 10

top_chemicals(releases) ==
    LET chems == FirstOccurrences(ChemicalNames(releases))
        totals == [i \in 1..Len(chems) |->
                      [chemical |-> chems[i],
                       total_release |-> ChemicalTotal(releases, chems[i])]]
    IN  Take(SortByTotal(totals), TopChemicalsLimit)

\* Counter(years).most_common(1)[0][0]: the first year with the largest count.
most_common_year(releases) ==
    LET years == ReportingYears(releases)
        distinct == FirstOccurrences(years)
        n(y) == Cardinality({i \in 1..Len(years) : years[i] = y})
        best == CHOOSE i \in 1..Len(distinct) :
                    /\ \A j \in 1..Len(distinct) : n(distinct[j]) <= n(distinct[i])
                    /\ \A j \in 1..(i - 1) : n(distinct[j]) < n(distinct[i])
    IN  distinct[best]

DefaultReportingYear == 2023

summarize_releases_CountsEveryRelease(releases) ==
    IF releases = <<>>
    THEN [total_facilities |-> 0, total_chemicals |-> 0, total_releases |-> 0,
          air_releases |-> 0, water_releases |-> 0, land_releases |-> 0,
          underground_injections |-> 0, top_chemicals |-> <<>>,
          reporting_year |-> DefaultReportingYear]
    ELSE LET air_total == Sum([i \in 1..Len(releases) |-> AirOf(releases[i])])
             water_total == Sum([i \in 1..Len(releases) |-> WaterOf(releases[i])])
             land_total == Sum([i \in 1..Len(releases) |-> LandOf(releases[i])])
             underground_total == Sum([i \in 1..Len(releases) |-> UndergroundOf(releases[i])])
         IN  [total_facilities |->
                  Len(releases),
              total_chemicals |->
                  Cardinality({releases[i].chemical_name : i \in 1..Len(releases)}),
              total_releases |->
                  air_total + water_total + land_total + underground_total,
              air_releases |-> air_total, water_releases |-> water_total,
              land_releases |-> land_total,
              underground_injections |-> underground_total,
              top_chemicals |-> top_chemicals(releases),
              reporting_year |-> most_common_year(releases)]

summarize_releases(releases) ==
    IF releases = <<>>
    THEN [total_facilities |-> 0, total_chemicals |-> 0, total_releases |-> 0,
          air_releases |-> 0, water_releases |-> 0, land_releases |-> 0,
          underground_injections |-> 0, top_chemicals |-> <<>>,
          reporting_year |-> DefaultReportingYear]
    ELSE LET air_total == Sum([i \in 1..Len(releases) |-> AirOf(releases[i])])
             water_total == Sum([i \in 1..Len(releases) |-> WaterOf(releases[i])])
             land_total == Sum([i \in 1..Len(releases) |-> LandOf(releases[i])])
             underground_total == Sum([i \in 1..Len(releases) |-> UndergroundOf(releases[i])])
         IN  [total_facilities |->
                  Cardinality({releases[i].facility_id : i \in 1..Len(releases)}),
              total_chemicals |->
                  Cardinality({releases[i].chemical_name : i \in 1..Len(releases)}),
              total_releases |->
                  air_total + water_total + land_total + underground_total,
              air_releases |-> air_total, water_releases |-> water_total,
              land_releases |-> land_total,
              underground_injections |-> underground_total,
              top_chemicals |-> top_chemicals(releases),
              reporting_year |-> most_common_year(releases)]

TopFacilitiesLimit == 50

PopulationOf(ws) == OrZero(ws.population_served)

format_environmental_summary_KeepsResolved(location, coordinates, radius_miles, facilities, water_systems, water_violations, chemical_releases, hazardous_sites) ==
    LET tagged == UNION {facilities[i].programs : i \in 1..Len(facilities)}
        facility_counts ==
            [prog \in tagged |->
                Cardinality({i \in 1..Len(facilities) : prog \in facilities[i].programs})]
        active_violations == water_violations
    IN  [location |-> location,
         coordinates |-> coordinates,
         radius_miles |-> radius_miles,
         facility_counts |-> facility_counts,
         total_facilities |-> Len(facilities),
         top_facilities |-> Take(facilities, TopFacilitiesLimit),
         water_systems |-> water_systems,
         water_violations |-> active_violations,
         total_violations |-> Len(active_violations),
         chemical_releases |-> summarize_releases(chemical_releases),
         hazardous_sites |-> hazardous_sites,
         total_hazardous_sites |-> Len(hazardous_sites),
         summary_stats |->
            [search_radius_miles |-> radius_miles,
             total_population_served |-> Sum([i \in 1..Len(water_systems) |-> PopulationOf(water_systems[i])]),
             active_violation_count |-> Len(active_violations),
             facilities_with_releases |->
                Cardinality({chemical_releases[i].facility_id :
                                i \in 1..Len(chemical_releases)}),
             unique_chemicals |->
                Cardinality({chemical_releases[i].chemical_name :
                                i \in 1..Len(chemical_releases)}),
             hazardous_waste_sites |-> Len(hazardous_sites)]]

format_environmental_summary(location, coordinates, radius_miles, facilities, water_systems, water_violations, chemical_releases, hazardous_sites) ==
    LET tagged == UNION {facilities[i].programs : i \in 1..Len(facilities)}
        facility_counts ==
            [prog \in tagged |->
                Cardinality({i \in 1..Len(facilities) : prog \in facilities[i].programs})]
        active_violations == SelectSeq(water_violations, LAMBDA v : v.is_current)
    IN  [location |-> location,
         coordinates |-> coordinates,
         radius_miles |-> radius_miles,
         facility_counts |-> facility_counts,
         total_facilities |-> Len(facilities),
         top_facilities |-> Take(facilities, TopFacilitiesLimit),
         water_systems |-> water_systems,
         water_violations |-> active_violations,
         total_violations |-> Len(active_violations),
         chemical_releases |-> summarize_releases(chemical_releases),
         hazardous_sites |-> hazardous_sites,
         total_hazardous_sites |-> Len(hazardous_sites),
         summary_stats |->
            [search_radius_miles |-> radius_miles,
             total_population_served |-> Sum([i \in 1..Len(water_systems) |-> PopulationOf(water_systems[i])]),
             active_violation_count |-> Len(active_violations),
             facilities_with_releases |->
                Cardinality({chemical_releases[i].facility_id :
                                i \in 1..Len(chemical_releases)}),
             unique_chemicals |->
                Cardinality({chemical_releases[i].chemical_name :
                                i \in 1..Len(chemical_releases)}),
             hazardous_waste_sites |-> Len(hazardous_sites)]]

(***************************************************************************)
(* Geocoding: the module-level cache and geocode_location.  An absent      *)
(* Optional[str] is "", which Python's truth tests treat like None.        *)
(***************************************************************************)
LocationInfo(coordinates, state_code, state_name) ==
    [coordinates |-> coordinates, state_code |-> state_code,
     state_name |-> state_name]

\* An excerpt of the table of _get_state_abbreviation.
state_mapping ==
    ("New York" :> "NY") @@ ("New Jersey" :> "NJ") @@ ("California" :> "CA")

get_state_abbreviation(state_name) ==
    IF state_name \in DOMAIN state_mapping THEN state_mapping[state_name] ELSE ""

\* GeocodingCache: the dict as the sequence of its items in insertion order;
\* max_size is the constructor's default.
max_size == 1000

CacheKey_CaseSensitive(location) == Text(Strip(location))

CacheKey(location) == Text(Strip(Lower(location)))

CacheHas(entries, key) == \E i \in 1..Len(entries) : entries[i].key = key

CacheIndex(entries, key) == CHOOSE i \in 1..Len(entries) : entries[i].key = key

cache_get(entries, location) ==
    IF CacheHas(entries, CacheKey(location))
    THEN [hit |-> TRUE,
          location_info |-> entries[CacheIndex(entries, CacheKey(location))].location_info]
    ELSE [hit |-> FALSE,
          location_info |-> LocationInfo(NoCoordinates, "", "")]

\* A set that makes room by dropping the entry inserted last.
cache_set_EvictsNewest(entries, size, location, location_info) ==
    LET kept == IF Len(entries) >= size THEN SubSeq(entries, 1, Len(entries) - 1) ELSE entries
        key == CacheKey(location)
    IN  IF CacheHas(kept, key)
        THEN [kept EXCEPT ![CacheIndex(kept, key)].location_info = location_info]
        ELSE Append(kept, [key |-> key, location_info |-> location_info])

cache_set_NeverEvicts(entries, size, location, location_info) ==
    LET key == CacheKey(location)
    IN  IF CacheHas(entries, key)
        THEN [entries EXCEPT ![CacheIndex(entries, key)].location_info = location_info]
        ELSE Append(entries, [key |-> key, location_info |-> location_info])

cache_set(entries, size, location, location_info) ==
    LET kept == IF Len(entries) >= size THEN Tail(entries) ELSE entries
        key == CacheKey(location)
    IN  IF CacheHas(kept, key)
        THEN [kept EXCEPT ![CacheIndex(kept, key)].location_info = location_info]
        ELSE Append(kept, [key |-> key, location_info |-> location_info])

\* What the external geocoder does with one request.
GeocoderFailure(kind) == [kind |-> kind, latitude |-> 0, iso |-> <<>>, state |-> ""]

GeocoderLocation(latitude, iso, state) ==
    [kind |-> "Location", latitude |-> latitude, iso |-> iso, state |-> state]

GeocoderAnswer(location) ==
    CASE CacheKey(location) = "10001" ->
            GeocoderLocation(4075, <<"U", "S", "-", "N", "Y">>, "New York")
      [] CacheKey(location) = "albany" ->
            GeocoderLocation(4265, <<>>, "New York")
      [] CacheKey(location) = "toronto" ->
            GeocoderLocation(4365, <<"C", "A", "-", "O", "N">>, "Ontario")
      [] OTHER -> GeocoderFailure("None")

GeocoderOutcomes(location) ==
    {GeocoderAnswer(location), GeocoderFailure("GeocoderTimedOut"),
     GeocoderFailure("GeocoderServiceError"), GeocoderFailure("Exception")}

StartsWithUS(iso) == Len(iso) >= 3 /\ SubSeq(iso, 1, 3) = <<"U", "S", "-">>

\* The try block of geocode_location after the geocoder has answered.
geocode_result_TimeoutEscapes(o) ==
    IF o.kind = "GeocoderTimedOut" THEN Raise("GeocoderTimedOut", "Geocoding timeout")
    ELSE IF o.kind = "GeocoderServiceError"
    THEN Raise("ValueError", "Geocoding service error")
    ELSE IF o.kind \in {"Exception", "None"}
    THEN Raise("ValueError", "Failed to geocode")
    ELSE LET from_iso == IF StartsWithUS(o.iso)
                         THEN Text(SubSeq(o.iso, 4, Len(o.iso))) ELSE ""
         IN  Return(IF from_iso # ""
                    THEN LocationInfo(Coordinates(o.latitude), from_iso, "")
                    ELSE LocationInfo(Coordinates(o.latitude),
                                      IF o.state # ""
                                      THEN get_state_abbreviation(o.state) ELSE "",
                                      o.state))

geocode_result(o) ==
    IF o.kind = "GeocoderTimedOut" THEN Raise("ValueError", "Geocoding timeout")
    ELSE IF o.kind = "GeocoderServiceError"
    THEN Raise("ValueError", "Geocoding service error")
    ELSE IF o.kind \in {"Exception", "None"}
    THEN Raise("ValueError", "Failed to geocode")
    ELSE LET from_iso == IF StartsWithUS(o.iso)
                         THEN Text(SubSeq(o.iso, 4, Len(o.iso))) ELSE ""
         IN  Return(IF from_iso # ""
                    THEN LocationInfo(Coordinates(o.latitude), from_iso, "")
                    ELSE LocationInfo(Coordinates(o.latitude),
                                      IF o.state # ""
                                      THEN get_state_abbreviation(o.state) ELSE "",
                                      o.state))

\* geocode_location: the result, the cache afterwards and whether the
\* external geocoder was invoked.
geocode_location(entries, size, location, o) ==
    LET cached == cache_get(entries, location)
        r == geocode_result(o)
    IN  IF cached.hit
        THEN [result |-> Return(cached.location_info), cache |-> entries,
              invoked |-> FALSE]
        ELSE [result |-> r,
              cache |-> IF r.kind = "return"
                        THEN cache_set(entries, size, location, r.value)
                        ELSE entries,
              invoked |-> TRUE]

(***************************************************************************)
(* get_environmental_summary_by_location after the fan-out.                *)
(***************************************************************************)
\* The five coroutines handed to asyncio.gather, in argument order.
BranchNames ==
    <<"get_facilities_by_state", "get_tri_facilities_by_state",
      "get_tri_releases_by_state", "get_water_systems_by_state",
      "get_rcra_sites_by_state">>

Branch(status, value) == [status |-> status, value |-> value]

NoBranches == [i \in 1..Len(BranchNames) |-> Branch("idle", <<>>)]

\* asyncio.gather(..., return_exceptions=True): a raised exception is a result.
gather_FirstExceptionPropagates(results) ==
    IF \E i \in DOMAIN results : results[i].status = "raised"
    THEN Raise("EPAAPIError", "query failed")
    ELSE Return(results)

gather(results) == Return(results)

\* results[i] if not isinstance(results[i], Exception) else []
UnpackResult(results, i) ==
    IF results[i].status = "raised" THEN <<>> ELSE results[i].value

\* The loop that adds the entities without coordinates of the queried state.
RECURSIVE IncludeStateMatches(_, _, _)
IncludeStateMatches(filtered, facilities, state_code) ==
    IF facilities = <<>> THEN filtered
    ELSE LET facility == [Head(facilities) EXCEPT !.distance_miles = None]
             matches == /\ ~Head(facilities).coordinates.present
                        /\ Head(facilities).state = state_code
             listed == \E i \in 1..Len(filtered) : filtered[i] = facility
         IN  IncludeStateMatches(
                 IF matches /\ ~listed THEN Append(filtered, facility) ELSE filtered,
                 Tail(facilities), state_code)

RECURSIVE FilterWaterSystems(_, _, _, _)
FilterWaterSystems(water_systems, coordinates, radius_miles, state_code) ==
    IF water_systems = <<>> THEN <<>>
    ELSE LET system == Head(water_systems)
             rest == FilterWaterSystems(Tail(water_systems), coordinates,
                                        radius_miles, state_code)
         IN  IF system.coordinates.present
             THEN IF haversine_distance(coordinates, system.coordinates) <= radius_miles
                  THEN <<[system EXCEPT !.distance_miles =
                             haversine_distance(coordinates, system.coordinates)]>>
                       \o rest
                  ELSE rest
             ELSE IF system.state = state_code
                  THEN <<[system EXCEPT !.distance_miles = None]>> \o rest
                  ELSE rest

RankLimit == 50

\* The violations query of the fan-out, were it still issued: one current
\* violation of the state.
disabled_water_violations_Queried(results) ==
    <<[violation_id |-> "v-1", is_current |-> TRUE]>>

\* water_violations = []: the violations query is commented out of the
\* fan-out and the list is set empty whatever the results are.
disabled_water_violations(results) == <<>>

\* Steps 3 to 6 of get_environmental_summary_by_location.
environmental_summary(location, radius_miles, location_info, results) ==
    LET coordinates == location_info.coordinates
        state_code == location_info.state_code
        frs_facilities == UnpackResult(results, 1)
        tri_facilities == UnpackResult(results, 2)
        tri_releases == UnpackResult(results, 3)
        water_systems == UnpackResult(results, 4)
        water_violations == disabled_water_violations(results)
        rcra_sites == UnpackResult(results, 5)
        filtered_frs ==
            IncludeStateMatches(
                filter_by_distance(frs_facilities, coordinates, radius_miles),
                frs_facilities, state_code)
        filtered_tri ==
            IncludeStateMatches(
                filter_by_distance(tri_facilities, coordinates, radius_miles),
                tri_facilities, state_code)
        filtered_rcra ==
            IncludeStateMatches(
                filter_by_distance(rcra_sites, coordinates, radius_miles),
                rcra_sites, state_code)
        filtered_water_systems ==
            FilterWaterSystems(water_systems, coordinates, radius_miles, state_code)
        all_facilities ==
            aggregate_facilities(filtered_frs, filtered_tri, filtered_rcra,
                                 filtered_water_systems)
        top_facilities == rank_facilities(all_facilities, RankLimit)
    IN  format_environmental_summary(location, coordinates, radius_miles,
                                     top_facilities, filtered_water_systems,
                                     water_violations, tri_releases, filtered_rcra)

(***************************************************************************)
(* The tool entry points as one state machine: a caller makes one call at  *)
(* a time; the geocoder and the EPA service answer as they please.         *)
(***************************************************************************)
NoToolArgs ==
    [location |-> PyNone, radius_miles |-> 0, facility_name |-> PyNone,
     naics_code |-> PyNone, state |-> PyNone, zip_code |-> PyNone,
     city |-> PyNone, limit |-> 0, registry_id |-> PyNone, program |-> PyNone,
     years |-> 0, chemical_name |-> PyNone, cas_number |-> PyNone,
     county |-> PyNone, year |-> PyNone]

NoGeocoding == GeocoderFailure("not invoked")

NoLocationInfo == LocationInfo(NoCoordinates, "", "")

NoFacilityInfo == FacilityInfo("", "", "", NoCoordinates, {}, None)

\* What the by-state client methods return for the queried state.
FrsByState ==
    <<FacilityInfo("110", "frs-1", "NY", NoCoordinates, {"FRS"}, None),
      FacilityInfo("220", "frs-2", "", NoCoordinates, {"FRS"}, None)>>

TriByState ==
    <<FacilityInfo("110", "tri-1", "NY", Coordinates(4078), {"TRI"}, None),
      FacilityInfo("440", "tri-2", "NY", Coordinates(4400), {"TRI"}, None)>>

TriReleases ==
    <<ChemicalRelease("440", "benzene", "71-43-2", 2022, 100, None, 0, None),
      ChemicalRelease("110", "toluene", "", 2022, None, 20, None, None)>>

WaterByState ==
    <<WaterSystem("NY0001", "water-1", "NY", NoCoordinates, 1000, None),
      WaterSystem("NY0002", "water-2", "NY", Coordinates(4076), None, None)>>

RcraByState ==
    <<FacilityInfo("110", "rcra-1", "NY", Coordinates(4075), {"RCRA"}, None)>>

BranchData == <<FrsByState, TriByState, TriReleases, WaterByState, RcraByState>>

\* ---- get_environmental_summary_by_location ----
SummaryLocations ==
    {PyStr(<<>>), PyStr(<<" ", " ">>), PyStr(<<"1", "0", "0", "0", "1">>),
     PyStr(<<" ", "A", "l", "b", "a", "n", "y", " ">>),
     PyStr(<<"a", "l", "b", "a", "n", "y">>),
     PyStr(<<"T", "o", "r", "o", "n", "t", "o">>),
     PyStr(<<"N", "o", "w", "h", "e", "r", "e">>)}

SummaryRadii == {0, 1, 50, 1000, 1001}

CallSummary ==
    /\ tpc = "idle"
    /\ \E location \in SummaryLocations, radius_miles \in SummaryRadii :
          LET a == [NoToolArgs EXCEPT !.location = location,
                                      !.radius_miles = radius_miles]
          IN  /\ tool' = "get_environmental_summary_by_location"
              /\ targs' = a
              /\ IF validate_summary(a) # ""
                 THEN /\ tpc' = "done"
                      /\ toolResult' = Raise("ValueError", validate_summary(a))
                 ELSE /\ tpc' = "geocoding"
                      /\ toolResult' = Pending
    /\ UNCHANGED <<cache, geoOutcome, locationInfo, geocoderCalls, epaQueries,
                   branches, facilityInfo>>
    /\ UNCHANGED <<frsFilters, clientResult>>
    /\ ToolFrame

\* Step 1: geocode_location, the state check and both except clauses; on
\* success the five coroutines are handed to asyncio.gather.
Geocode ==
    /\ tpc = "geocoding"
    /\ \E o \in GeocoderOutcomes(Strip(targs.location.chars)) :
          LET g == geocode_location(cache, cacheMaxSize,
                                      Strip(targs.location.chars), o)
              found == g.result.kind = "return" /\ g.result.value.state_code # ""
          IN  /\ cache' = g.cache
              /\ geoOutcome' = IF g.invoked THEN o ELSE NoGeocoding
              /\ geocoderCalls' = IF g.invoked THEN geocoderCalls + 1
                                  ELSE geocoderCalls
              /\ IF found
                 THEN /\ locationInfo' = g.result.value
                      /\ branches' = [i \in 1..Len(BranchNames) |->
                                         Branch("pending", <<>>)]
                      /\ epaQueries' = epaQueries + Len(BranchNames)
                      /\ tpc' = "fanout"
                      /\ UNCHANGED toolResult
                 ELSE /\ toolResult' =
                            IF g.result.kind = "raise" /\ g.result.exc # "ValueError"
                            THEN Raise("Exception",
                                       "Failed to retrieve environmental data")
                            ELSE Raise("ValueError", "Could not find location")
                      /\ tpc' = "done"
                      /\ UNCHANGED <<locationInfo, branches, epaQueries>>
    /\ UNCHANGED <<tool, targs, facilityInfo>>
    /\ UNCHANGED <<frsFilters, clientResult>>
    /\ ToolFrame

\* One coroutine of the fan-out finishes: it returns its list or raises.
BranchComplete ==
    /\ tpc = "fanout"
    /\ \E i \in 1..Len(BranchNames), status \in {"returned", "raised"} :
          /\ branches[i].status = "pending"
          /\ branches' = [branches EXCEPT ![i] =
                             Branch(status, IF status = "returned"
                                            THEN BranchData[i] ELSE <<>>)]
    /\ UNCHANGED <<tpc, tool, targs, cache, geoOutcome, locationInfo,
                   geocoderCalls, epaQueries, facilityInfo, toolResult>>
    /\ UNCHANGED <<frsFilters, clientResult>>
    /\ ToolFrame

\* asyncio.gather returns; steps 3 to 6 build the summary.
Gather ==
    /\ tpc = "fanout"
    /\ \A i \in 1..Len(BranchNames) : branches[i].status # "pending"
    /\ toolResult' =
          IF gather(branches).kind = "raise"
          THEN Raise("Exception", "Failed to retrieve environmental data")
          ELSE Return(environmental_summary(Text(Strip(targs.location.chars)),
                                            targs.radius_miles, locationInfo,
                                            gather(branches).value))
    /\ tpc' = "done"
    /\ UNCHANGED <<tool, targs, cache, geoOutcome, locationInfo, geocoderCalls,
                   epaQueries, branches, facilityInfo>>
    /\ UNCHANGED <<frsFilters, clientResult>>
    /\ ToolFrame

\* The except clauses that close each of the three tools: a ValueError goes
\* on as it is, any other exception becomes Exception("<context>: ...").
except_clauses_Unwrapped(context, result) == result

except_clauses(context, result) ==
    IF result.kind = "raise" /\ result.exc # "ValueError"
    THEN Raise("Exception", context)
    ELSE result

\* ---- search_facilities ----
SearchNames == {PyNone, PyStr(<<" ", " ">>), PyStr(<<"C", "h", "e", "m">>)}

SearchNaics == {PyNone, PyStr(<<"3", "2", "5">>)}

SearchStates == {PyNone, PyStr(<<" ", "n", "y", " ">>), PyStr(<<"N", "Y", "C">>)}

SearchZips ==
    {PyNone, PyInt(0), PyInt(1510), PyStr(<<" ", "5", "0", "1", " ">>),
     PyStr(<<"a", "b", "c">>),
     PyStr(<<"1", "2", "3", "4", "5", "-", "6", "7", "8", "9">>)}

SearchCities == {PyNone, PyStr(<<" ">>)}

Limits == {0, 1, 1000, 1001}

CallSearch ==
    /\ tpc = "idle"
    /\ \E facility_name \in SearchNames, naics_code \in SearchNaics,
          state \in SearchStates, zip_code \in SearchZips,
          city \in SearchCities, limit \in Limits :
          LET a == [NoToolArgs EXCEPT !.facility_name = facility_name,
                                      !.naics_code = naics_code,
                                      !.state = state, !.zip_code = zip_code,
                                      !.city = city, !.limit = limit]
          IN  /\ tool' = "search_facilities"
              /\ targs' = a
              /\ IF validate_search(a) # ""
                 THEN /\ tpc' = "done"
                      /\ toolResult' = Raise("ValueError", validate_search(a))
                      /\ UNCHANGED <<epaQueries, frsFilters>>
                 ELSE /\ tpc' = "searching"
                      /\ toolResult' = Pending
                      /\ epaQueries' = epaQueries + 1
                      /\ frsFilters' = frs_search_filters(clean_search(a))
    /\ UNCHANGED <<cache, geoOutcome, locationInfo, geocoderCalls, branches,
                   facilityInfo, clientResult>>
    /\ ToolFrame

\* FRSClient.search_facilities returns or raises EPAAPIError.
SearchComplete ==
    /\ tpc = "searching"
    /\ \E facilities \in {<<>>, FrsByState}, raised \in BOOLEAN :
          clientResult' = IF raised THEN Raise("EPAAPIError", "FRS search failed")
                          ELSE Return(facilities)
    /\ toolResult' = except_clauses("Failed to search facilities", clientResult')
    /\ tpc' = "done"
    /\ UNCHANGED <<tool, targs, cache, geoOutcome, locationInfo, geocoderCalls,
                   epaQueries, branches, facilityInfo>>
    /\ UNCHANGED frsFilters
    /\ ToolFrame

\* ---- get_facility_compliance_history ----
RegistryIds == {PyStr(<<>>), PyStr(<<" ">>), PyStr(<<" ", "1", "1", "0", " ">>)}

ProgramChoices ==
    {PyNone, PyStr(<<>>), PyStr(<<"t", "r", "i">>), PyStr(<<"R", "C", "R", "A">>),
     PyStr(<<" ", "T", "R", "I", " ">>),
     PyStr(<<"S", "D", "W", "I", "S">>)}

YearsChoices == {0, 1, 20, 21}

ComplianceRecord(program, status, violation_count, total_penalties) ==
    [program |-> program, status |-> status,
     violation_count |-> violation_count, total_penalties |-> total_penalties]

ComplianceAnswers ==
    {<<>>,
     <<ComplianceRecord("RCRA", "COMPLIANT", 0, None)>>,
     <<ComplianceRecord("RCRA", "UNKNOWN", 0, None),
       ComplianceRecord("TRI", "COMPLIANT", 0, 0)>>,
     <<ComplianceRecord("RCRA", "COMPLIANT", 1, 500),
       ComplianceRecord("TRI", "VIOLATION", 2, None)>>}

ViolationCountOf(r) == r.violation_count

PenaltiesOf(r) == r.total_penalties

\* A history whose overall status lets COMPLIANT win over VIOLATION.
compliance_history_CompliantFirst(facility_info, compliance_records, years) ==
    LET statuses == {compliance_records[i].status :
                        i \in 1..Len(compliance_records)}
        penalties == SelectSeq(compliance_records,
                               LAMBDA r : r.total_penalties # None)
    IN  [facility_info |-> facility_info,
         compliance_records |-> compliance_records,
         overall_status |-> IF "COMPLIANT" \in statuses THEN "COMPLIANT"
                            ELSE IF "VIOLATION" \in statuses THEN "VIOLATION"
                            ELSE "UNKNOWN",
         total_violations |-> Sum([i \in 1..Len(compliance_records) |-> ViolationCountOf(compliance_records[i])]),
         total_penalties |-> IF penalties # <<>>
                             THEN Sum([i \in 1..Len(penalties) |-> PenaltiesOf(penalties[i])]) ELSE None,
         years_analyzed |-> years]

\* Steps 3 and 4 of get_facility_compliance_history.
compliance_history(facility_info, compliance_records, years) ==
    LET statuses == {compliance_records[i].status :
                        i \in 1..Len(compliance_records)}
        penalties == SelectSeq(compliance_records,
                               LAMBDA r : r.total_penalties # None)
    IN  [facility_info |-> facility_info,
         compliance_records |-> compliance_records,
         overall_status |-> IF "VIOLATION" \in statuses THEN "VIOLATION"
                            ELSE IF "COMPLIANT" \in statuses THEN "COMPLIANT"
                            ELSE "UNKNOWN",
         total_violations |-> Sum([i \in 1..Len(compliance_records) |-> ViolationCountOf(compliance_records[i])]),
         total_penalties |-> IF penalties # <<>>
                             THEN Sum([i \in 1..Len(penalties) |-> PenaltiesOf(penalties[i])]) ELSE None,
         years_analyzed |-> years]

CallCompliance ==
    /\ tpc = "idle"
    /\ \E registry_id \in RegistryIds, program \in ProgramChoices,
          years \in YearsChoices :
          LET a == [NoToolArgs EXCEPT !.registry_id = registry_id,
                                      !.program = program, !.years = years]
          IN  /\ tool' = "get_facility_compliance_history"
              /\ targs' = a
              /\ IF validate_compliance(a) # ""
                 THEN /\ tpc' = "done"
                      /\ toolResult' = Raise("ValueError", validate_compliance(a))
                      /\ UNCHANGED epaQueries
                 ELSE /\ tpc' = "frs_lookup"
                      /\ toolResult' = Pending
                      /\ epaQueries' = epaQueries + 1
    /\ UNCHANGED <<cache, geoOutcome, locationInfo, geocoderCalls, branches,
                   facilityInfo>>
    /\ UNCHANGED <<frsFilters, clientResult>>
    /\ ToolFrame

\* Step 1: get_facility_by_id finds the facility, finds nothing or raises;
\* then step 2 starts the compliance lookup.
FrsLookupComplete ==
    /\ tpc = "frs_lookup"
    /\ \E answer \in {"found", "none", "raised"} :
          LET registry_id == Text(clean_compliance(targs).registry_id.chars)
          IN  facilityInfo' =
                 IF answer = "found"
                 THEN FacilityInfo(registry_id, "frs-1", "NY", NoCoordinates,
                                   {"FRS"}, None)
                 ELSE FacilityInfo(registry_id, "Facility " \o registry_id, "",
                                   NoCoordinates, {"FRS"}, None)
    /\ epaQueries' = epaQueries + 1
    /\ tpc' = "compliance_lookup"
    /\ UNCHANGED <<tool, targs, cache, geoOutcome, locationInfo, geocoderCalls,
                   branches, toolResult>>
    /\ UNCHANGED <<frsFilters, clientResult>>
    /\ ToolFrame

ComplianceLookupComplete ==
    /\ tpc = "compliance_lookup"
    /\ \E compliance_records \in ComplianceAnswers, raised \in BOOLEAN :
          clientResult' = IF raised
                          THEN Raise("EPAAPIError", "Compliance lookup failed")
                          ELSE Return(compliance_records)
    /\ toolResult' =
          except_clauses("Failed to retrieve compliance history",
             IF clientResult'.kind = "raise"
             THEN Raise("Exception", "Failed to retrieve compliance data")
             ELSE Return(compliance_history(facilityInfo, clientResult'.value,
                                            targs.years)))
    /\ tpc' = "done"
    /\ UNCHANGED <<tool, targs, cache, geoOutcome, locationInfo, geocoderCalls,
                   epaQueries, branches, facilityInfo>>
    /\ UNCHANGED frsFilters
    /\ ToolFrame

\* ---- the chemical-release tool ----
ChemicalNameChoices == {PyNone, PyStr(<<" ">>), PyStr(<<"b", "e", "n", "z", "e", "n", "e">>)}

CasNumbers == {PyNone, PyStr(<<"7", "1", "-", "4", "3", "-", "2">>)}

ReleaseStates == {PyNone, PyStr(<<"N", "Y">>), PyStr(<<"N", "Y", "C">>)}

Counties == {PyNone, PyStr(<<"K", "i", "n", "g", "s">>)}

ReportingYearChoices == {PyNone, PyInt(2021)}

\* The names of the parameters that go into search_params.
SearchParamNames(a) ==
    {k \in {"chemical_name", "cas_number", "state", "county", "year"} :
        Truthy(a[k])}

ChemicalKey(r) ==
    r.chemical_name \o "_" \o (IF r.cas_number # "" THEN r.cas_number ELSE "unknown")

\* max(set(years), key=years.count): one of the most frequent years.
MostFrequentYears(releases) ==
    LET years == ReportingYears(releases)
        n(y) == Cardinality({i \in 1..Len(years) : years[i] = y})
    IN  {years[i] : i \in {j \in 1..Len(years) :
                              \A k \in 1..Len(years) : n(years[k]) <= n(years[j])}}

\* The response built by _get_chemical_release_data_impl, without the
\* per-facility and per-chemical groupings.
release_data(a, releases, reporting_year) ==
    [search_params |-> [k \in SearchParamNames(a) |-> a[k]],
     total_facilities |->
        Cardinality({releases[i].facility_id : i \in 1..Len(releases)}),
     total_chemicals |->
        Cardinality({ChemicalKey(releases[i]) : i \in 1..Len(releases)}),
     total_releases |-> Sum([i \in 1..Len(releases) |-> total_release(releases[i])]),
     air_releases |-> Sum([i \in 1..Len(releases) |-> AirOf(releases[i])]),
     water_releases |-> Sum([i \in 1..Len(releases) |-> WaterOf(releases[i])]),
     land_releases |-> Sum([i \in 1..Len(releases) |-> LandOf(releases[i])]),
     underground_injections |-> Sum([i \in 1..Len(releases) |-> UndergroundOf(releases[i])]),
     reporting_year |-> reporting_year]

\* Validation, cleaning, and the check TRIClient.get_chemical_releases makes
\* before its first query.
CallReleases ==
    /\ tpc = "idle"
    /\ \E chemical_name \in ChemicalNameChoices, cas_number \in CasNumbers,
          state \in ReleaseStates, county \in Counties,
          year \in ReportingYearChoices, limit \in Limits :
          LET a == [NoToolArgs EXCEPT !.chemical_name = chemical_name,
                                      !.cas_number = cas_number,
                                      !.state = state, !.county = county,
                                      !.year = year, !.limit = limit]
              message == IF validate_releases(a) # "" THEN validate_releases(a)
                         ELSE get_chemical_releases_check(clean_releases(a))
          IN  /\ tool' = "get_chemical_release_data"
              /\ targs' = a
              /\ IF message # ""
                 THEN /\ tpc' = "done"
                      /\ toolResult' = Raise("ValueError", message)
                      /\ UNCHANGED epaQueries
                 ELSE /\ tpc' = "releases_query"
                      /\ toolResult' = Pending
                      /\ epaQueries' = epaQueries + 1
    /\ UNCHANGED <<cache, geoOutcome, locationInfo, geocoderCalls, branches,
                   facilityInfo>>
    /\ UNCHANGED <<frsFilters, clientResult>>
    /\ ToolFrame

ReleasesComplete ==
    /\ tpc = "releases_query"
    /\ \E releases \in {<<>>, TriReleases}, raised \in BOOLEAN :
          /\ clientResult' = IF raised
                             THEN Raise("EPAAPIError", "TRI chemical releases query failed")
                             ELSE Return(releases)
          /\ IF raised
             THEN toolResult' =
                     except_clauses("Failed to retrieve chemical release data",
                                    clientResult')
             ELSE IF releases = <<>>
             THEN toolResult' =
                     Return(release_data(clean_releases(targs), <<>>, PyNone))
             ELSE \E y \in MostFrequentYears(releases) :
                     toolResult' =
                        Return(release_data(clean_releases(targs), releases,
                                            IF Truthy(targs.year) THEN targs.year
                                            ELSE PyInt(y)))
    /\ tpc' = "done"
    /\ UNCHANGED <<tool, targs, cache, geoOutcome, locationInfo, geocoderCalls,
                   epaQueries, branches, facilityInfo>>
    /\ UNCHANGED frsFilters
    /\ ToolFrame

\* The caller has its answer; the next call starts from the same cache.
ToolReturn ==
    /\ tpc = "done"
    /\ tpc' = "idle"
    /\ tool' = ""
    /\ targs' = NoToolArgs
    /\ geoOutcome' = NoGeocoding
    /\ locationInfo' = NoLocationInfo
    /\ geocoderCalls' = 0
    /\ epaQueries' = 0
    /\ branches' = NoBranches
    /\ facilityInfo' = NoFacilityInfo
    /\ toolResult' = Pending
    /\ frsFilters' = <<>>
    /\ clientResult' = Pending
    /\ UNCHANGED cache
    /\ ToolFrame

(***************************************************************************)
(* The utilities applied to bounded inputs.                                *)
(***************************************************************************)
MaxReleases == 2

Amounts ==
    {[air |-> None, water |-> None, land |-> None, inj |-> None],
     [air |-> 100, water |-> None, land |-> 0, inj |-> None],
     [air |-> None, water |-> 20, land |-> None, inj |-> 5],
     [air |-> 1, water |-> 2, land |-> 3, inj |-> 4]}

ReleasePool ==
    {ChemicalRelease(id, chem, "", year, q.air, q.water, q.land, q.inj) :
        id \in {"110", "440"}, chem \in {"benzene", "toluene"},
        year \in {2021, 2022}, q \in Amounts}

SummarizeReleases ==
    /\ fpc = "ready"
    /\ fOut' = summarize_releases(fIn)
    /\ fpc' = "done"
    /\ UNCHANGED fIn
    /\ FunFrame

WaterViolation(violation_id, is_current) ==
    [violation_id |-> violation_id, is_current |-> is_current]

MaxViolations == 2

MaxSites == 2

ViolationPool == {WaterViolation(id, c) : id \in {"v-1", "v-2"}, c \in BOOLEAN}

\* The lengths of the ranked facility lists given: around the cut at 50.
RankedLengths == {0, 1, 2, 49, 50, 51}

\* A ranked list of n facilities whose program tags follow a pattern.
RankedFacilities(n, tags) ==
    [i \in 1..n |->
        FacilityInfo(ToString(i), "facility", "NY", NoCoordinates,
                     IF tags = "FRS" THEN {"FRS"}
                     ELSE IF tags = "mixed"
                          THEN (IF i % 2 = 1 THEN {"FRS", "TRI"} ELSE {"RCRA"})
                     ELSE (IF i = 1 THEN {} ELSE {"TRI"}),
                     None)]

FormatEnvironmentalSummary ==
    /\ fpc = "ready"
    /\ fOut' = format_environmental_summary(
                   "10001", Coordinates(4075), 50, fIn.facilities,
                   fIn.water_systems, fIn.water_violations,
                   fIn.chemical_releases, fIn.hazardous_sites)
    /\ fpc' = "done"
    /\ UNCHANGED fIn
    /\ FunFrame

(***************************************************************************)
(* A GeocodingCache instance under set, get and clear.                     *)
(***************************************************************************)
MaxCacheSize == 2

CacheLocations ==
    {<<"1", "0", "0", "0", "1">>, <<" ", "A", "l", "b", "a", "n", "y", " ">>,
     <<"a", "l", "b", "a", "n", "y">>, <<"T", "o", "r", "o", "n", "t", "o">>}

CacheInfos ==
    {LocationInfo(Coordinates(4075), "NY", ""),
     LocationInfo(Coordinates(4265), "NY", "New York")}

\* fIn keeps the operation and the cache it was applied to.
CacheSet ==
    /\ fpc \in {"ready", "set", "get", "clear"}
    /\ \E location \in CacheLocations, location_info \in CacheInfos :
          /\ cache' = cache_set(cache, cacheMaxSize, location, location_info)
          /\ fIn' = [location |-> location, location_info |-> location_info,
                     before |-> cache]
    /\ fpc' = "set"
    /\ fOut' = <<>>
    /\ UNCHANGED <<httpVars, distVars, aggVars, cacheMaxSize>>
    /\ UNCHANGED <<tpc, tool, targs, geoOutcome, locationInfo, geocoderCalls,
                   epaQueries, frsFilters, clientResult, branches, facilityInfo,
                   toolResult>>

CacheGet ==
    /\ fpc \in {"ready", "set", "get", "clear"}
    /\ \E location \in CacheLocations :
          /\ fOut' = cache_get(cache, location)
          /\ fIn' = [location |-> location, location_info |-> NoLocationInfo,
                     before |-> cache]
    /\ fpc' = "get"
    /\ UNCHANGED <<httpVars, distVars, aggVars, cacheMaxSize, cache>>
    /\ UNCHANGED <<tpc, tool, targs, geoOutcome, locationInfo, geocoderCalls,
                   epaQueries, frsFilters, clientResult, branches, facilityInfo,
                   toolResult>>

CacheClear ==
    /\ fpc \in {"ready", "set", "get", "clear"}
    /\ cache' = <<>>
    /\ fIn' = [location |-> <<>>, location_info |-> NoLocationInfo,
               before |-> cache]
    /\ fpc' = "clear"
    /\ fOut' = <<>>
    /\ UNCHANGED <<httpVars, distVars, aggVars, cacheMaxSize>>
    /\ UNCHANGED <<tpc, tool, targs, geoOutcome, locationInfo, geocoderCalls,
                   epaQueries, frsFilters, clientResult, branches, facilityInfo,
                   toolResult>>

(***************************************************************************)
(* geocode_location called sequentially on the module-level cache.  fIn    *)
(* keeps the location and the cache before the call; succeeded is the      *)
(* locations geocoded and cached since the cache was last cleared, before  *)
(* the call in fIn and after it in fOut.                                   *)
(***************************************************************************)
GeocodeLocation ==
    /\ fpc \in {"ready", "geocode", "cleared"}
    /\ \E location \in CacheLocations : \E o \in GeocoderOutcomes(location) :
          LET g == geocode_location(cache, cacheMaxSize, location, o)
          IN  /\ cache' = g.cache
              /\ fIn' = [location |-> location, before |-> cache,
                         succeeded |-> fOut.succeeded]
              /\ fOut' = [result |-> g.result, invoked |-> g.invoked,
                          succeeded |->
                             IF g.invoked /\ g.result.kind = "return"
                             THEN fOut.succeeded \cup
                                    {[location |-> location,
                                      location_info |-> g.result.value]}
                             ELSE fOut.succeeded]
    /\ fpc' = "geocode"
    /\ UNCHANGED <<httpVars, distVars, aggVars, cacheMaxSize>>
    /\ UNCHANGED <<tpc, tool, targs, geoOutcome, locationInfo, geocoderCalls,
                   epaQueries, frsFilters, clientResult, branches, facilityInfo,
                   toolResult>>

ClearGeocodingCache ==
    /\ fpc \in {"ready", "geocode", "cleared"}
    /\ cache' = <<>>
    /\ fIn' = [location |-> <<>>, before |-> cache,
               succeeded |-> fOut.succeeded]
    /\ fOut' = [result |-> Pending, invoked |-> FALSE, succeeded |-> {}]
    /\ fpc' = "cleared"
    /\ UNCHANGED <<httpVars, distVars, aggVars, cacheMaxSize>>
    /\ UNCHANGED <<tpc, tool, targs, geoOutcome, locationInfo, geocoderCalls,
                   epaQueries, frsFilters, clientResult, branches, facilityInfo,
                   toolResult>>

(***************************************************************************)
(* ComplianceClient: the status of the ComplianceRecord made from the      *)
(* first record of the handler or facility query.                          *)
(***************************************************************************)
COMPLIANT == "compliant"
VIOLATION == "violation"
UNKNOWN == "unknown"

CompliantTerms == {"COMPLIANT", "IN_COMPLIANCE"}

ViolationTerms == {"NON_COMPLIANT", "VIOLATION"}

\* A record of rcra.rcra_handler or tri.tri_facility, as far as the status
\* reads it.
StatusRecord(compliance_status, fac_closed_ind) ==
    [compliance_status |-> compliance_status, fac_closed_ind |-> fac_closed_ind]

\* A status mapping that looks for the terms inside the string.
status_of_BySubstring(compliance_status) ==
    LET upper == Upper(compliance_status.chars)
        Inside(term) == \E i \in 1..Len(upper), j \in 1..Len(upper) :
                            i <= j /\ Text(SubSeq(upper, i, j)) = term
    IN  IF ~Truthy(compliance_status) THEN UNKNOWN
        ELSE IF \E term \in ViolationTerms : Inside(term) THEN VIOLATION
        ELSE IF \E term \in CompliantTerms : Inside(term) THEN COMPLIANT
        ELSE UNKNOWN

\* The if/elif over compliance_status.upper(); the value is a string here.
status_of(compliance_status) ==
    IF ~Truthy(compliance_status) THEN UNKNOWN
    ELSE IF Text(Upper(compliance_status.chars)) \in CompliantTerms THEN COMPLIANT
    ELSE IF Text(Upper(compliance_status.chars)) \in ViolationTerms THEN VIOLATION
    ELSE UNKNOWN

\* A truthy compliance_status that is no string has no upper(): the
\* AttributeError is caught by the method's except and re-raised.
get_rcra_compliance_by_handler_id(data) ==
    IF data = <<>> THEN Return(None)
    ELSE IF Truthy(data[1].compliance_status) /\ data[1].compliance_status.isint
    THEN Raise("EPAAPIError", "RCRA compliance query failed")
    ELSE Return([program |-> "RCRA",
                 status |-> status_of(data[1].compliance_status)])

get_tri_compliance_by_facility_id(data) ==
    IF data = <<>> THEN Return(None)
    ELSE IF Truthy(data[1].compliance_status) /\ data[1].compliance_status.isint
    THEN Raise("EPAAPIError", "TRI compliance query failed")
    ELSE Return([program |-> "TRI",
                 status |-> IF data[1].fac_closed_ind = "Y" THEN COMPLIANT
                            ELSE status_of(data[1].compliance_status)])

RawStatuses ==
    {PyNone, PyStr(<<>>), PyInt(0), PyInt(1),
     PyStr(<<"C", "O", "M", "P", "L", "I", "A", "N", "T">>),
     PyStr(<<"c", "o", "m", "p", "l", "i", "a", "n", "t">>),
     PyStr(<<"I", "n", "_", "C", "o", "m", "p", "l", "i", "a", "n", "c", "e">>),
     PyStr(<<"N", "O", "N", "_", "C", "O", "M", "P", "L", "I", "A", "N", "T">>),
     PyStr(<<"n", "o", "n", "_", "c", "o", "m", "p", "l", "i", "a", "n", "t">>),
     PyStr(<<"V", "i", "o", "l", "a", "t", "i", "o", "n">>),
     PyStr(<<"v", "i", "o", "l", "a", "t", "i", "o", "n", "s">>),
     PyStr(<<"c", "o", "m", "p", "l", "i", "a", "n", "t", " ">>),
     PyStr(<<"O", "p", "e", "n">>)}

ClosedIndicators == {"", "N", "Y"}

ComplianceData ==
    {<<>>} \cup {<<StatusRecord(s, c)>> : s \in RawStatuses, c \in ClosedIndicators}

\* One of the two lookups gets its query answer and builds its record.
GetCompliance ==
    /\ fpc = "ready"
    /\ fOut' = IF fIn.program = "RCRA"
               THEN get_rcra_compliance_by_handler_id(fIn.data)
               ELSE get_tri_compliance_by_facility_id(fIn.data)
    /\ fpc' = "done"
    /\ UNCHANGED fIn
    /\ FunFrame

(***************************************************************************)
(* The by-state batch queries of the four program clients: every record of *)
(* the answer goes through the client's parser.                            *)
(***************************************************************************)
\* A raw record: a JSON object with some of the fields the parsers read (""
\* or None for a key that is missing), or a JSON value that is no object.
RawRecord(isdict, id, name, state, latitude) ==
    [isdict |-> isdict, id |-> id, name |-> name, state |-> state, latitude |-> latitude]

\* A latitude no Coordinates accepts (ge=-90, le=90), in hundredths.
BadLatitude == 12000

\* The None a parser returns for a record it could not make an entity of.
NotParsed == [parsed |-> FALSE]

\* FRSClient._parse_frs_record
parse_frs_record(record) ==
    IF ~record.isdict THEN NotParsed
    ELSE FacilityInfo(record.id,
                      IF record.name # "" THEN record.name ELSE "Unknown Facility",
                      record.state, NoCoordinates, {"FRS"}, None)

\* TRIClient._parse_tri_facility_record
parse_tri_facility_record(record) ==
    IF ~record.isdict THEN NotParsed
    ELSE IF record.latitude \notin {None, 0} /\ Abs(record.latitude) > 9000 THEN NotParsed
    ELSE FacilityInfo(record.id,
                      IF record.name # "" THEN record.name ELSE "Unknown TRI Facility",
                      record.state,
                      IF record.latitude \notin {None, 0}
                      THEN Coordinates(record.latitude) ELSE NoCoordinates,
                      {"TRI"}, None)

\* RCRAClient._parse_rcra_record
parse_rcra_record(record) ==
    IF ~record.isdict THEN NotParsed
    ELSE FacilityInfo(record.id,
                      "RCRA Handler " \o (IF record.id # "" THEN record.id ELSE "Unknown"),
                      record.state, NoCoordinates, {"RCRA"}, None)

\* SDWISClient._parse_water_system_record
parse_water_system_record(record) ==
    IF ~record.isdict THEN NotParsed
    ELSE WaterSystem(record.id,
                     IF record.name # "" THEN record.name ELSE "Unknown Water System",
                     record.state, NoCoordinates, None, None)

parse_record(program, record) ==
    CASE program = "FRS" -> parse_frs_record(record)
      [] program = "TRI" -> parse_tri_facility_record(record)
      [] program = "RCRA" -> parse_rcra_record(record)
      [] OTHER -> parse_water_system_record(record)

\* The loop of the by-state methods: what the parser returns is appended
\* unless it is None.
RECURSIVE parse_batch(_, _)
parse_batch(program, data) ==
    IF data = <<>> THEN <<>>
    ELSE LET parsed == parse_record(program, Head(data))
         IN  (IF parsed # NotParsed THEN <<parsed>> ELSE <<>>)
             \o parse_batch(program, Tail(data))

\* get_facilities_by_state, get_tri_facilities_by_state,
\* get_rcra_sites_by_state, get_water_systems_by_state, given what
\* query_table did.
get_by_state(program, answer) ==
    IF answer.kind = "raise"
    THEN Raise("EPAAPIError", program \o " state query failed")
    ELSE Return(parse_batch(program, answer.value))

MaxBatch == 3

RecordPool ==
    {RawRecord(TRUE, "110", "one", "NY", 4078),
     RawRecord(TRUE, "220", "", "NY", None),
     RawRecord(TRUE, "330", "three", "NY", BadLatitude),
     RawRecord(TRUE, "", "", "", None),
     RawRecord(FALSE, "", "", "", None)}

\* One by-state query gets its answer and parses it.
GetByState ==
    /\ fpc = "ready"
    /\ fOut' = get_by_state(fIn.program, fIn.answer)
    /\ fpc' = "done"
    /\ UNCHANGED fIn
    /\ FunFrame

(***************************************************************************)
(* ComplianceClient.get_compliance_by_registry_id: which lookups it makes  *)
(* and what it does with their outcomes.  Every lookup is given as the     *)
(* outcome of its query_table call.                                        *)
(***************************************************************************)
QueryFailed == Raise("EPAAPIError", "Query failed")

\* A lookup's outcome together with the tables it queried, in order.
Looked(result, queries) == [result |-> result, queries |-> queries]

\* _get_rcra_handler_by_registry_id, then get_rcra_compliance_by_handler_id
\* when a handler was found: the records to append, or the exception.
rcra_lookup(handler, rcra) ==
    IF handler.kind = "raise" \/ handler.value = <<>>
    THEN Looked(Return(<<>>), <<"rcra.rcra_handler">>)
    ELSE Looked(IF rcra.kind = "raise"
                THEN Raise("EPAAPIError", "RCRA compliance query failed")
                ELSE IF get_rcra_compliance_by_handler_id(rcra.value).kind = "raise"
                THEN get_rcra_compliance_by_handler_id(rcra.value)
                ELSE IF rcra.value = <<>> THEN Return(<<>>)
                ELSE Return(<<get_rcra_compliance_by_handler_id(rcra.value).value>>),
                <<"rcra.rcra_handler", "rcra.rcra_handler">>)

\* get_tri_compliance_by_facility_id: by tri_facility_id first, by
\* registry_id when that found nothing.
tri_lookup(by_tri_id, by_registry_id) ==
    IF by_tri_id.kind = "raise"
    THEN Looked(Raise("EPAAPIError", "TRI compliance query failed"), <<"tri.tri_facility">>)
    ELSE IF by_tri_id.value # <<>>
    THEN Looked(IF get_tri_compliance_by_facility_id(by_tri_id.value).kind = "raise"
                THEN get_tri_compliance_by_facility_id(by_tri_id.value)
                ELSE Return(<<get_tri_compliance_by_facility_id(by_tri_id.value).value>>),
                <<"tri.tri_facility">>)
    ELSE IF by_registry_id.kind = "raise"
    THEN Looked(Raise("EPAAPIError", "TRI compliance query failed"),
                <<"tri.tri_facility", "tri.tri_facility">>)
    ELSE Looked(IF get_tri_compliance_by_facility_id(by_registry_id.value).kind = "raise"
                THEN get_tri_compliance_by_facility_id(by_registry_id.value)
                ELSE IF by_registry_id.value = <<>> THEN Return(<<>>)
                ELSE Return(<<get_tri_compliance_by_facility_id(by_registry_id.value).value>>),
                <<"tri.tri_facility", "tri.tri_facility">>)

\* A lookup that makes both parts whatever the program filter, and gives up
\* when the RCRA part fails.
get_compliance_by_registry_id_RcraFailureFatal(program, handler, rcra, by_tri_id, by_registry_id) ==
    LET r == rcra_lookup(handler, rcra)
        t == tri_lookup(by_tri_id, by_registry_id)
    IN  IF r.result.kind = "raise"
        THEN Looked(Raise("EPAAPIError", "Compliance lookup failed"), r.queries)
        ELSE Looked(Return(r.result.value
                           \o (IF t.result.kind = "raise" THEN <<>> ELSE t.result.value)),
                    r.queries \o t.queries)

get_compliance_by_registry_id(program, handler, rcra, by_tri_id, by_registry_id) ==
    LET r == rcra_lookup(handler, rcra)
        t == tri_lookup(by_tri_id, by_registry_id)
        Only(l) == IF l.result.kind = "raise"
                   THEN Looked(Raise("EPAAPIError", "Compliance lookup failed"), l.queries)
                   ELSE l
    IN  IF Truthy(program)
        THEN IF Text(Upper(program.chars)) = "RCRA" THEN Only(r)
             ELSE IF Text(Upper(program.chars)) = "TRI" THEN Only(t)
             ELSE Looked(Return(<<>>), <<>>)
        ELSE Looked(Return((IF r.result.kind = "raise" THEN <<>> ELSE r.result.value)
                           \o (IF t.result.kind = "raise" THEN <<>> ELSE t.result.value)),
                    r.queries \o t.queries)

LookupPrograms ==
    {PyNone, PyStr(<<>>), PyStr(<<"r", "c", "r", "a">>), PyStr(<<"T", "R", "I">>),
     PyStr(<<"S", "D", "W", "I", "S">>)}

HandlerAnswers == {QueryFailed, Return(<<>>), Return(<<StatusRecord(PyNone, "")>>)}

RcraAnswers ==
    {QueryFailed, Return(<<>>),
     Return(<<StatusRecord(PyStr(<<"V", "i", "o", "l", "a", "t", "i", "o", "n">>), "")>>)}

TriAnswers ==
    {QueryFailed, Return(<<>>),
     Return(<<StatusRecord(PyStr(<<"c", "o", "m", "p", "l", "i", "a", "n", "t">>), "N")>>),
     Return(<<StatusRecord(PyInt(1), "")>>)}

\* One call of get_compliance_by_registry_id with its queries answered.
GetComplianceByRegistryId ==
    /\ fpc = "ready"
    /\ fOut' = get_compliance_by_registry_id(fIn.program, fIn.handler, fIn.rcra,
                                             fIn.by_tri_id, fIn.by_registry_id)
    /\ fpc' = "done"
    /\ UNCHANGED fIn
    /\ FunFrame

(***************************************************************************)
(* TRIClient.get_chemical_releases: the reporting-form query, one lookup   *)
(* per key collected from its rows, and the rows combined and filtered.    *)
(***************************************************************************)
\* What the three tables hold under the keys of the model.
TriFacilityTable ==
    ("F1" :> [facility_name |-> "plant-1", state_abbr |-> "NY"])
    @@ ("F2" :> [facility_name |-> "plant-2", state_abbr |-> "NJ"])

TriChemTable ==
    ("C1" :> [chem_name |-> "benzene", cas_registry_number |-> "71-43-2"])
    @@ ("C2" :> [chem_name |-> "toluene", cas_registry_number |-> "108-88-3"])

FormRTable ==
    ("D1" :> [air_total_release |-> 100]) @@ ("D2" :> [air_total_release |-> 20])

\* A row of tri.tri_reporting_form; "" is a key the row does not carry.
ReportingRow(tri_facility_id, tri_chem_id, doc_ctrl_num) ==
    [tri_facility_id |-> tri_facility_id, tri_chem_id |-> tri_chem_id, doc_ctrl_num |-> doc_ctrl_num]

\* The set of the truthy values of one key over the rows, in the order the
\* model iterates it: first occurrence.
CollectedKeys(rows, field) ==
    FirstOccurrences(SelectSeq([i \in 1..Len(rows) |-> rows[i][field]], LAMBDA k : k # ""))

\* One query_table call per key against a table.
Lookups(table, keys) == [i \in 1..Len(keys) |-> [table |-> table, key |-> keys[i]]]

\* The dictionary filled by the lookups of one table: the keys whose lookup
\* neither failed nor came back empty.
LookedUp(table, keys, failing) ==
    {keys[i] : i \in 1..Len(keys)} \cap (DOMAIN table \ failing)

\* _parse_tri_release_record_combined for one row; with a cas_number the rows
\* come joined with tri.tri_chem_info and carry the chemical themselves.
combined_release(a, row, facility_data, chemical_data, form_r_data) ==
    LET joined == Truthy(a.cas_number) /\ row.tri_chem_id \in DOMAIN TriChemTable
        chemical == joined \/ row.tri_chem_id \in chemical_data
    IN  ChemicalRelease(
            row.tri_facility_id,
            IF chemical THEN TriChemTable[row.tri_chem_id].chem_name
            ELSE "Unknown Chemical",
            IF chemical THEN TriChemTable[row.tri_chem_id].cas_registry_number ELSE "",
            2022,
            IF row.doc_ctrl_num \in form_r_data
            THEN FormRTable[row.doc_ctrl_num].air_total_release ELSE None,
            None, None, None)

\* A filter that does not look at the state.
passes_filters_StateIgnored(a, release, facility_data) ==
    ~(Truthy(a.cas_number) /\ release.cas_number # Text(a.cas_number.chars))

\* The additional filters applied to a parsed release: False is `continue`.
passes_filters(a, release, facility_data) ==
    /\ ~(Truthy(a.cas_number) /\ release.cas_number # Text(a.cas_number.chars))
    /\ Truthy(a.state) =>
          /\ release.facility_id \in facility_data
          /\ TriFacilityTable[release.facility_id].state_abbr = Text(Upper(a.state.chars))

RECURSIVE CombineRows(_, _, _, _, _)
CombineRows(a, rows, facility_data, chemical_data, form_r_data) ==
    IF rows = <<>> THEN <<>>
    ELSE LET release == combined_release(a, Head(rows), facility_data, chemical_data,
                                         form_r_data)
         IN  (IF passes_filters(a, release, facility_data) THEN <<release>> ELSE <<>>)
             \o CombineRows(a, Tail(rows), facility_data, chemical_data, form_r_data)

\* failing names, per table, the keys whose lookup raises.
get_chemical_releases(a, reporting, failing) ==
    IF get_chemical_releases_check(a) # ""
    THEN Looked(Raise("ValueError", get_chemical_releases_check(a)), <<>>)
    ELSE IF reporting.kind = "raise"
    THEN Looked(Raise("EPAAPIError", "TRI chemical releases query failed"), <<>>)
    ELSE IF reporting.value = <<>> THEN Looked(Return(<<>>), <<>>)
    ELSE LET rows == reporting.value
             facility_ids == CollectedKeys(rows, "tri_facility_id")
             chemical_ids == IF Truthy(a.cas_number) THEN <<>>
                             ELSE CollectedKeys(rows, "tri_chem_id")
             doc_ctrl_nums == CollectedKeys(rows, "doc_ctrl_num")
         IN  Looked(Return(CombineRows(a, rows,
                        LookedUp(TriFacilityTable, facility_ids, failing.facility),
                        LookedUp(TriChemTable, chemical_ids, failing.chemical),
                        LookedUp(FormRTable, doc_ctrl_nums, failing.release))),
                    Lookups("tri.tri_facility", facility_ids)
                    \o Lookups("tri.tri_chem_info", chemical_ids)
                    \o Lookups("tri.tri_form_r", doc_ctrl_nums))

MaxRows == 2

RowPool ==
    {ReportingRow("F1", "C1", "D1"), ReportingRow("F1", "C2", "D2"),
     ReportingRow("F2", "C1", "")}

ReleaseArgs ==
    {[NoToolArgs EXCEPT !.chemical_name = chemical_name, !.cas_number = cas_number,
                        !.state = state] :
        chemical_name \in {PyNone, PyStr(<<"b", "e", "n">>)},
        cas_number \in {PyNone, PyStr(<<"7", "1", "-", "4", "3", "-", "2">>)},
        state \in {PyNone, PyStr(<<"n", "y">>), PyStr(<<"N", "J">>)}}

FailingLookups ==
    [facility : {{}, {"F1"}}, chemical : {{}, {"C1"}}, release : {{}, {"D1"}}]

\* One call of get_chemical_releases with its queries answered.
GetChemicalReleases ==
    /\ fpc = "ready"
    /\ fOut' = get_chemical_releases(fIn.a, fIn.reporting, fIn.failing)
    /\ fpc' = "done"
    /\ UNCHANGED fIn
    /\ FunFrame

(***************************************************************************)
(* Two overlapping geocode_location calls on the one event loop.  A call   *)
(* runs without interruption between its awaits (asyncio.sleep and         *)
(* run_in_executor); fpc, fIn and fOut are indexed by caller here.         *)
(***************************************************************************)
Callers == {1, 2}

NoAnswer == GeocoderFailure("pending")

CallState(answer, result) == [answer |-> answer, result |-> result]

\* Up to the first await: the cache lookup, then asyncio.sleep(1).
CheckCache(p) ==
    /\ fpc[p] = "start"
    /\ LET cached == cache_get(cache, fIn[p])
       IN  IF cached.hit
           THEN /\ fpc' = [fpc EXCEPT ![p] = "done"]
                /\ fOut' = [fOut EXCEPT ![p].result = Return(cached.location_info)]
           ELSE /\ fpc' = [fpc EXCEPT ![p] = "sleeping"]
                /\ UNCHANGED fOut
    /\ UNCHANGED <<fIn, cache, geocoderCalls>>
    /\ UNCHANGED <<httpVars, distVars, aggVars, cacheMaxSize>>
    /\ UNCHANGED <<tpc, tool, targs, geoOutcome, locationInfo,
                   epaQueries, frsFilters, clientResult, branches, facilityInfo,
                   toolResult>>

\* The sleep is over: the request goes to the external geocoder in the
\* executor, and the call awaits its answer.
RunInExecutor(p) ==
    /\ fpc[p] = "sleeping"
    /\ \E o \in GeocoderOutcomes(fIn[p]) :
          fOut' = [fOut EXCEPT ![p].answer = o]
    /\ geocoderCalls' = geocoderCalls + 1
    /\ fpc' = [fpc EXCEPT ![p] = "geocoding"]
    /\ UNCHANGED <<fIn, cache>>
    /\ UNCHANGED <<httpVars, distVars, aggVars, cacheMaxSize>>
    /\ UNCHANGED <<tpc, tool, targs, geoOutcome, locationInfo,
                   epaQueries, frsFilters, clientResult, branches, facilityInfo,
                   toolResult>>

\* The answer is back: the rest of the try block and the except clauses.
GeocoderAnswered(p) ==
    /\ fpc[p] = "geocoding"
    /\ LET r == geocode_result(fOut[p].answer)
       IN  /\ fOut' = [fOut EXCEPT ![p].result = r]
           /\ cache' = IF r.kind = "return"
                       THEN cache_set(cache, cacheMaxSize, fIn[p], r.value)
                       ELSE cache
    /\ fpc' = [fpc EXCEPT ![p] = "done"]
    /\ UNCHANGED <<fIn, geocoderCalls>>
    /\ UNCHANGED <<httpVars, distVars, aggVars, cacheMaxSize>>
    /\ UNCHANGED <<tpc, tool, targs, geoOutcome, locationInfo,
                   epaQueries, frsFilters, clientResult, branches, facilityInfo,
                   toolResult>>

(***************************************************************************)
(* The EPA clients of one tool call: `async with` opens them, the queries  *)
(* run on them, and __aexit__ closes them when the block is left.  Here    *)
(* fIn is the tool and the block it is at, fOut the clients and queries.   *)
(***************************************************************************)
ClientNames ==
    {"FRSClient", "TRIClient", "SDWISClient", "RCRAClient", "ComplianceClient"}

LifecycleTools ==
    {"get_environmental_summary_by_location", "search_facilities",
     "get_facility_compliance_history", "get_chemical_release_data"}

\* The client of each query started inside the block, in the order of the code.
BlockQueries(tool_name, block) ==
    CASE tool_name = "get_environmental_summary_by_location" ->
            <<"FRSClient", "TRIClient", "TRIClient", "SDWISClient", "RCRAClient">>
      [] tool_name = "search_facilities" -> <<"FRSClient">>
      [] tool_name = "get_chemical_release_data" -> <<"TRIClient">>
      [] tool_name = "get_facility_compliance_history" /\ block = 1 -> <<"FRSClient">>
      [] OTHER -> <<"ComplianceClient">>

LastBlock(tool_name) == IF tool_name = "get_facility_compliance_history" THEN 2 ELSE 1

Lifecycle(clients, tasks, late, result) ==
    [clients |-> clients, tasks |-> tasks, late |-> late, result |-> result]

NoLifecycle == Lifecycle([c \in ClientNames |-> "none"], <<>>, {}, Pending)

Finished(tasks) == {i \in 1..Len(tasks) : tasks[i].status \in {"returned", "raised"}}

Failed(tasks) == {i \in 1..Len(tasks) : tasks[i].status = "raised"}

\* A gather without return_exceptions: the first exception ends the await.
gather_done_OnFirstException(tasks) ==
    Finished(tasks) = 1..Len(tasks) \/ Failed(tasks) # {}

\* asyncio.gather(..., return_exceptions=True) and a plain await: the await
\* ends when every awaited coroutine has returned or raised.
gather_done(tasks) == Finished(tasks) = 1..Len(tasks)

\* The tool is called; validation or geocoding may end it before any client.
CallTool ==
    /\ fpc = "idle"
    /\ \E tool_name \in LifecycleTools, valid \in BOOLEAN :
          /\ fIn' = [tool |-> tool_name, block |-> 1]
          /\ IF valid
             THEN /\ fpc' = "enter"
                  /\ UNCHANGED fOut
             ELSE /\ fpc' = "done"
                  /\ fOut' = [fOut EXCEPT !.result = Raise("ValueError", "invalid")]
    /\ FunFrame

\* `async with ...Client() as ...`: the clients are constructed and entered,
\* and the coroutines of the block are started.
EnterClients ==
    /\ fpc = "enter"
    /\ LET queries == BlockQueries(fIn.tool, fIn.block)
       IN  fOut' = [fOut EXCEPT
                      !.clients = [c \in ClientNames |->
                                     IF \E i \in 1..Len(queries) : queries[i] = c
                                     THEN "open" ELSE @[c]],
                      !.tasks = [i \in 1..Len(queries) |->
                                     [client |-> queries[i], status |-> "scheduled"]]]
    /\ fpc' = "inside"
    /\ UNCHANGED fIn
    /\ FunFrame

\* A coroutine sends its request on its client.
IssueQuery ==
    /\ \E i \in 1..Len(fOut.tasks) :
          /\ fOut.tasks[i].status = "scheduled"
          /\ fOut' = [fOut EXCEPT
                        !.tasks[i].status = "requesting",
                        !.late = IF fOut.clients[fOut.tasks[i].client] = "open"
                                 THEN @ ELSE @ \cup {fOut.tasks[i].client}]
    /\ UNCHANGED <<fpc, fIn>>
    /\ FunFrame

\* The query returns its records or raises.
QueryComplete ==
    /\ \E i \in 1..Len(fOut.tasks), status \in {"returned", "raised"} :
          /\ fOut.tasks[i].status = "requesting"
          /\ fOut' = [fOut EXCEPT !.tasks[i].status = status]
    /\ UNCHANGED <<fpc, fIn>>
    /\ FunFrame

\* The await of the block ends and the block is left: __aexit__ closes every
\* client of the block, whether the block returned or raised.  The summary
\* goes on to its result, the FRS lookup of the compliance history to the
\* compliance block whatever happened; a failed query of the other blocks
\* ends the call with an exception.
LeaveBlock ==
    /\ fpc = "inside"
    /\ gather_done(fOut.tasks)
    /\ LET closed == [c \in ClientNames |->
                         IF fOut.clients[c] = "open" THEN "closed" ELSE fOut.clients[c]]
           swallowed == \/ fIn.tool = "get_environmental_summary_by_location"
                        \/ fIn.block < LastBlock(fIn.tool)
       IN  IF Failed(fOut.tasks) # {} /\ ~swallowed
           THEN /\ fOut' = [fOut EXCEPT !.clients = closed,
                                        !.result = Raise("Exception", "Failed")]
                /\ fpc' = "done"
                /\ UNCHANGED fIn
           ELSE IF fIn.block < LastBlock(fIn.tool)
           THEN /\ fOut' = [fOut EXCEPT !.clients = closed]
                /\ fpc' = "enter"
                /\ fIn' = [fIn EXCEPT !.block = @ + 1]
           ELSE /\ fOut' = [fOut EXCEPT !.clients = closed,
                                        !.result = Return(fIn.tool)]
                /\ fpc' = "done"
                /\ UNCHANGED fIn
    /\ FunFrame

(***************************************************************************)
(* Claims about filter_by_distance (checked under SpecDist).               *)
(***************************************************************************)
Count(list, e) == Cardinality({i \in 1..Len(list) : list[i] = e})

DistanceFromCenter(f) == haversine_distance(dIn.center, f.coordinates)

WithinRadius(f) ==
    f.coordinates.present /\ DistanceFromCenter(f) <= dIn.max_distance_miles

Measured(f) == [f EXCEPT !.distance_miles = DistanceFromCenter(f)]

QualifyingInputs == {i \in 1..Len(dIn.facilities) : WithinRadius(dIn.facilities[i])}

\* C10: filter_by_distance returns exactly the input entities that have
\* coordinates and lie within max_distance_miles of the center, each with
\* distance_miles set to its computed distance: nothing farther, nothing
\* without coordinates, nothing qualifying left out.
C10_FilterReturnsExactlyTheEntitiesWithinRadius ==
    dpc = "done" =>
        /\ \A i \in 1..Len(dOut) :
            /\ dOut[i].coordinates.present
            /\ DistanceFromCenter(dOut[i]) <= dIn.max_distance_miles
            /\ dOut[i].distance_miles = DistanceFromCenter(dOut[i])
            /\ \E j \in QualifyingInputs : dOut[i] = Measured(dIn.facilities[j])
        /\ Len(dOut) = Cardinality(QualifyingInputs)
        /\ \A j \in QualifyingInputs :
            Count(dOut, Measured(dIn.facilities[j]))
                = Cardinality({k \in QualifyingInputs :
                        Measured(dIn.facilities[k]) = Measured(dIn.facilities[j])})

\* A call that kept an entity lying exactly on the radius and dropped both an
\* entity that is too far and one without coordinates.
C10_Witness ==
    /\ dpc = "done"
    /\ \E j \in QualifyingInputs :
            DistanceFromCenter(dIn.facilities[j]) = dIn.max_distance_miles
    /\ \E j \in 1..Len(dIn.facilities) :
            /\ dIn.facilities[j].coordinates.present
            /\ ~WithinRadius(dIn.facilities[j])
    /\ \E j \in 1..Len(dIn.facilities) : ~dIn.facilities[j].coordinates.present
    /\ Len(dOut) >= 1

\* C11: the list filter_by_distance returns is in ascending order of
\* distance_miles, an entity at distance 0 included.
C11_FilteredListAscendingByDistance ==
    dpc = "done" =>
        \A i \in 1..Len(dOut), j \in 1..Len(dOut) :
            i < j => dOut[i].distance_miles <= dOut[j].distance_miles

(***************************************************************************)
(* Claims about aggregate_facilities (checked under SpecAgg).              *)
(***************************************************************************)
RECURSIVE MapSeq(_, _)
MapSeq(Op(_), list) ==
    IF list = <<>> THEN <<>> ELSE <<Op(Head(list))>> \o MapSeq(Op, Tail(list))

\* The facilities given, and every entity in merge order FRS, TRI, RCRA, SDWIS.
GivenFacilities == aIn.frs \o aIn.tri \o aIn.rcra

MergeOrder == GivenFacilities \o MapSeq(SystemAsFacility, aIn.sdwis)

WithId(list, id) == {i \in 1..Len(list) : list[i].registry_id = id}

NonProgramFields(f) == [f EXCEPT !.programs = {}]

\* C8: two facilities given with one registry_id and different program tags
\* come out as exactly one entity whose programs include both sets, and no
\* two output entities share a registry_id.
C8_SharedRegistryIdMergedIntoUnion ==
    apc = "done" =>
        /\ \A i, j \in 1..Len(aOut) :
            aOut[i].registry_id = aOut[j].registry_id => i = j
        /\ \A i, j \in 1..Len(GivenFacilities) :
            LET f == GivenFacilities[i]
                g == GivenFacilities[j]
            IN  (f.registry_id = g.registry_id /\ f.programs # g.programs) =>
                    /\ Cardinality(WithId(aOut, f.registry_id)) = 1
                    /\ \A k \in WithId(aOut, f.registry_id) :
                        (f.programs \cup g.programs) \subseteq aOut[k].programs

\* C9: for every key the output entity has the non-program fields of the
\* first entity seen with that key in merge order, and the program tags of
\* every entity seen with it.
C9_FirstSeenFieldsWinProgramsAreUnioned ==
    apc = "done" =>
        /\ \A i \in 1..Len(MergeOrder) :
            Cardinality(WithId(aOut, MergeOrder[i].registry_id)) = 1
        /\ \A k \in 1..Len(aOut) :
            LET seen == WithId(MergeOrder, aOut[k].registry_id)
                first == CHOOSE i \in seen : \A j \in seen : i <= j
            IN  /\ seen # {}
                /\ NonProgramFields(aOut[k]) = NonProgramFields(MergeOrder[first])
                /\ aOut[k].programs = UNION {MergeOrder[j].programs : j \in seen}

(***************************************************************************)
(* Claims about the tool entry points (checked under SpecTool).            *)
(***************************************************************************)
SummaryTool == "get_environmental_summary_by_location"

\* A str parameter that is absent, empty or only whitespace.
Blank(v) == ~v.given \/ (~v.isint /\ \A i \in 1..Len(v.chars) : v.chars[i] = " ")

\* A parameter the caller left out: None, "" or 0.
LeftOut(v) == ~v.given \/ (IF v.isint THEN v.n = 0 ELSE Len(v.chars) = 0)

\* The caller's parameters are invalid in one of the ways the tools reject.
InvalidParameters ==
    \/ /\ tool = "search_facilities"
       /\ \/ /\ LeftOut(targs.facility_name) /\ LeftOut(targs.naics_code)
             /\ LeftOut(targs.state) /\ LeftOut(targs.zip_code)
             /\ LeftOut(targs.city)
          \/ targs.limit \notin 1..1000
    \/ /\ tool = SummaryTool
       /\ \/ Blank(targs.location)
          \/ targs.radius_miles \notin 1..1000
    \/ /\ tool = "get_facility_compliance_history"
       /\ \/ Blank(targs.registry_id)
          \/ targs.years \notin 1..20
          \/ /\ ~LeftOut(targs.program)
             /\ Text(Upper(Strip(targs.program.chars))) \notin {"TRI", "RCRA"}
    \/ /\ tool = "get_chemical_release_data"
       /\ \/ /\ LeftOut(targs.chemical_name) /\ LeftOut(targs.cas_number)
             /\ LeftOut(targs.state) /\ LeftOut(targs.county)
          \/ targs.limit \notin 1..1000

\* C3: a tool called with invalid parameters raises ValueError, and has sent
\* no request to the geocoder and started no EPA query.
C3_InvalidParametersRaiseBeforeAnyCall ==
    (tpc # "idle" /\ InvalidParameters) =>
        /\ tpc = "done"
        /\ toolResult.kind = "raise"
        /\ toolResult.exc = "ValueError"
        /\ geocoderCalls = 0
        /\ epaQueries = 0
        /\ branches = NoBranches

C3_Witness ==
    /\ tpc = "done"
    /\ tool = SummaryTool
    /\ ~Blank(targs.location)
    /\ targs.radius_miles = 1001
    /\ toolResult.exc = "ValueError"
    /\ cache # <<>>

\* The names of the US states.
USStateNames == DOMAIN state_mapping

\* The geocoder's match names a US state: by an ISO code "US-xx" or by name.
NamesUSState(o) ==
    \/ Len(o.iso) > 3 /\ o.iso[1] = "U" /\ o.iso[2] = "S" /\ o.iso[3] = "-"
    \/ o.state \in USStateNames

\* Geocoding has failed for the summary call in progress: the geocoder timed
\* out, reported a service error, failed otherwise, found no match, or found
\* (now or in an earlier call that was cached) a match outside the US states.
GeocodingFailed ==
    /\ tool = SummaryTool
    /\ tpc \in {"fanout", "done"}
    /\ ~InvalidParameters
    /\ \/ geoOutcome.kind \in {"GeocoderTimedOut", "GeocoderServiceError",
                               "Exception", "None"}
       \/ geoOutcome.kind = "Location" /\ ~NamesUSState(geoOutcome)
       \/ /\ geoOutcome = NoGeocoding
          /\ ~NamesUSState(GeocoderAnswer(Strip(targs.location.chars)))

\* C4: however geocoding fails, the summary call raises the ValueError
\* "Could not find location" and no EPA query is started.
C4_GeocodingFailureIsOneValueErrorNoQuery ==
    GeocodingFailed =>
        /\ tpc = "done"
        /\ toolResult = Raise("ValueError", "Could not find location")
        /\ epaQueries = 0
        /\ branches = NoBranches

C4_Witness ==
    /\ GeocodingFailed
    /\ geoOutcome.kind = "GeocoderTimedOut"
    /\ tpc = "done"
    /\ geocoderCalls = 1
    /\ cache # <<>>

\* What a branch contributes: its list, or nothing when it raised.
Contribution(i) ==
    IF branches[i].status = "raised" THEN <<>> ELSE BranchData[i]

FanOutFinished ==
    /\ tool = SummaryTool
    /\ tpc = "done"
    /\ branches # NoBranches

\* C2: whichever of the five branches raise, the summary call returns a
\* summary; it is the one built from the lists of the branches that returned
\* and empty lists for the branches that raised.
C2_FailedBranchesContributeEmptyLists ==
    FanOutFinished =>
        /\ toolResult.kind = "return"
        /\ toolResult.value =
              environmental_summary(Text(Strip(targs.location.chars)),
                                    targs.radius_miles, locationInfo,
                                    [i \in 1..5 |-> Branch("returned", Contribution(i))])
        /\ toolResult.value.chemical_releases = summarize_releases(Contribution(3))
        /\ branches[5].status = "raised" =>
              /\ toolResult.value.hazardous_sites = <<>>
              /\ toolResult.value.total_hazardous_sites = 0
        /\ branches[4].status = "raised" => toolResult.value.water_systems = <<>>
        /\ (\A i \in 1..5 : branches[i].status = "raised") =>
              toolResult.value.total_facilities = 0

C2_Witness ==
    /\ FanOutFinished
    /\ branches[1].status = "raised"
    /\ branches[4].status = "raised"
    /\ branches[3].status = "returned"
    /\ branches[5].status = "returned"
    /\ toolResult.kind = "return"
    /\ toolResult.value.water_systems = <<>>
    /\ toolResult.value.chemical_releases.total_releases = 120
    /\ toolResult.value.total_hazardous_sites = 1

(***************************************************************************)
(* Claims about summarize_releases (checked under SpecSum).                *)
(***************************************************************************)
\* The amount of one field of a release, absent counted as 0.
Amount(r, field) == IF r[field] = None THEN 0 ELSE r[field]

\* The sum of one field over the releases of the call.
RECURSIVE FieldTotal(_, _)
FieldTotal(field, n) ==
    IF n = 0 THEN 0 ELSE FieldTotal(field, n - 1) + Amount(fIn[n], field)

CurrentUpTo(n) ==
    Cardinality({j \in 1..n : fIn.water_violations[j].is_current})

\* The number of given facilities tagged with program p.
TaggedWith(p) ==
    Cardinality({i \in 1..Len(fIn.facilities) : p \in fIn.facilities[i].programs})

RECURSIVE SumOfCounts(_, _)
SumOfCounts(counts, keys) ==
    IF keys = {} THEN 0
    ELSE LET k == CHOOSE x \in keys : TRUE
         IN  counts[k] + SumOfCounts(counts, keys \ {k})

FacilityTypes == {"TRI", "RCRA", "SDWIS", "FRS", "ICIS", "GHG", "NEI", "SEMS"}

C14_CacheNeverExceedsMaxSize ==
    cacheMaxSize >= 1 => Len(cache) <= cacheMaxSize

\* A set of a new key on a full cache.
C14_Witness ==
    /\ fpc = "set"
    /\ cacheMaxSize >= 1
    /\ Len(fIn.before) = cacheMaxSize
    /\ ~CacheHas(fIn.before, CacheKey(fIn.location))
    /\ Len(cache) = cacheMaxSize

(***************************************************************************)
(* Claims about sequential geocode_location calls (checked under SpecGeo). *)
(***************************************************************************)
\* Two location strings that differ only in letter case or in surrounding
\* whitespace.
SameButCaseAndSpace(a, b) == Upper(Strip(a)) = Upper(Strip(b))

\* The earlier successes this call's location repeats.
EarlierSuccesses ==
    {e \in fIn.succeeded : SameButCaseAndSpace(e.location, fIn.location)}

\* C15: once geocode_location has succeeded for a location, a later call with
\* a location that differs only in case or surrounding whitespace returns the
\* same LocationInfo and does not invoke the external geocoder.
C15_RepeatedLocationServedFromCache ==
    (fpc = "geocode" /\ EarlierSuccesses # {}) =>
        /\ ~fOut.invoked
        /\ fOut.result.kind = "return"
        /\ \A e \in EarlierSuccesses : fOut.result.value = e.location_info
        /\ cache = fIn.before

\* "albany" after " Albany " was geocoded.
C15_Witness ==
    /\ fpc = "geocode"
    /\ fIn.location = <<"a", "l", "b", "a", "n", "y">>
    /\ \E e \in EarlierSuccesses : e.location # fIn.location
    /\ ~fOut.invoked
    /\ fOut.result.value.state_code = "NY"

(***************************************************************************)
(* Claims about EPAClient._build_query_url                                 *)
(***************************************************************************)
\* The filter conditions of a query, one per (column, operator) pair, in the
\* insertion order of the outer and then of the inner dictionary.
RECURSIVE Triplets(_)
Triplets(filters) ==
    IF filters = <<>> THEN <<>>
    ELSE [i \in 1..Len(filters[1].conditions) |->
             [column   |-> filters[1].column,
              operator |-> filters[1].conditions[i].operator,
              value    |-> filters[1].conditions[i].value]]
         \o Triplets(Tail(filters))

\* The window segment of a query.
Window(limit, offset) == ToString(offset + 1) \o ":" \o ToString(offset + limit)

\* The path segments a query is expected to have, position by position.
ExpectedSegments(a) ==
    LET t == Triplets(a.filters)
        f == 2 + 3 * Len(t)
        j == f + 2 * Len(a.joins)
        s == IF a.sort # "" THEN 1 ELSE 0
    IN  [i \in 1..(j + 1 + s + 1) |->
            IF i = 1 THEN BaseUrl
            ELSE IF i = 2 THEN a.table
            ELSE IF i <= f THEN
                LET c == t[((i - 3) \div 3) + 1]
                IN  CASE (i - 3) % 3 = 0 -> c.column
                      [] (i - 3) % 3 = 1 -> c.operator
                      [] OTHER           -> c.value
            ELSE IF i <= j THEN
                IF (i - f) % 2 = 1 THEN "join" ELSE a.joins[(i - f) \div 2]
            ELSE IF i = j + 1 THEN Window(a.limit, a.offset)
            ELSE IF i = j + 2 /\ s = 1 THEN a.sort
            ELSE "JSON"]

\* The query of the documented example.
ExampleQuery ==
    [table |-> "frs.frs_facilities",
     filters |-> <<[column |-> "state_abbr",
                    conditions |-> <<[operator |-> "equals", value |-> "CA"]>>]>>,
     joins |-> <<>>, sort |-> "", limit |-> 10, offset |-> 0]

\* C16: the URL built for a query is the '/'-joined list of: base, table, one
\* column/operator/value triplet per filter condition in insertion order, one
\* 'join'/table pair per join, the window <offset+1>:<offset+limit>, the sort
\* column when given, and the format; for frs.frs_facilities filtered by
\* state_abbr equals CA with limit 10 and offset 0 it is exactly
\* <base>/frs.frs_facilities/state_abbr/equals/CA/1:10/JSON.
C16_UrlSegmentsInFixedOrder ==
    qpc # "idle" =>
        /\ url = Join(ExpectedSegments(qargs))
        /\ qargs = ExampleQuery =>
             url = BaseUrl \o "/frs.frs_facilities/state_abbr/equals/CA/1:10/JSON"

\* A URL has been built for a query with a two-operator column, a join and a
\* sort column, at a non-zero offset.
C16_Witness ==
    /\ qpc # "idle"
    /\ Len(qargs.filters) = 2
    /\ Len(Triplets(qargs.filters)) = 3
    /\ qargs.joins # <<>>
    /\ qargs.sort = "facility_name"
    /\ qargs.offset = 100
    /\ url = BaseUrl \o "/tri.tri_facility/state_abbr/equals/NY/latitude/greaterThan/40.0/latitude/lessThan/41.0/join/tri.tri_reporting_form/101:150/facility_name/JSON"

(***************************************************************************)
(* Claims about the ZIP code of search_facilities                          *)
(***************************************************************************)
SearchTool == tool = "search_facilities" /\ tpc # "idle"

\* The digits of the ZIP code as the caller wrote it.
WrittenDigits(zip_code) ==
    LET text == IF zip_code.isint THEN StrOfNat(zip_code.n) ELSE zip_code.chars
    IN  SelectSeq(text, LAMBDA c : c \in {"0", "1", "2", "3", "4", "5", "6", "7", "8", "9"})

\* The values the query filters postal_code by.
PostalFilters == SelectSeq(frsFilters, LAMBDA f : f.column = "postal_code")

\* value is digits, left-padded with zeros to five characters.
PaddedToFive(value, digits) ==
    /\ Len(value) = 5
    /\ \A i \in 1..(5 - Len(digits)) : value[i] = "0"
    /\ \A i \in 1..Len(digits) : value[5 - Len(digits) + i] = digits[i]

\* C17: a ZIP code that search_facilities accepts reaches the query as one
\* postal_code filter whose value is the digits of the input's string form,
\* left-padded with zeros to exactly five digits (1510 becomes "01510"); an
\* input with more than five digits ends the call with ValueError.
C17_ZipCodeNormalizedToFiveDigits ==
    SearchTool /\ Truthy(targs.zip_code) =>
        /\ Len(WrittenDigits(targs.zip_code)) > 5 =>
              /\ tpc = "done"
              /\ toolResult.kind = "raise" /\ toolResult.exc = "ValueError"
              /\ frsFilters = <<>>
        /\ epaQueries > 0 =>
              /\ Len(PostalFilters) = 1
              /\ PostalFilters[1].operator = "equals"
              /\ PaddedToFive(PostalFilters[1].value, WrittenDigits(targs.zip_code))
              /\ targs.zip_code = PyInt(1510) =>
                    PostalFilters[1].value = <<"0", "1", "5", "1", "0">>

\* The numeric ZIP code 1510 has been accepted and the query filters by it.
C17_Witness ==
    /\ SearchTool
    /\ targs.zip_code = PyInt(1510)
    /\ epaQueries > 0
    /\ Len(PostalFilters) = 1
    /\ PostalFilters[1].value = <<"0", "1", "5", "1", "0">>

(***************************************************************************)
(* Claims about the status mapping of ComplianceClient                     *)
(***************************************************************************)
\* The fixed vocabulary and what each term stands for.
Classification ==
    ("COMPLIANT" :> COMPLIANT) @@ ("IN_COMPLIANCE" :> COMPLIANT)
    @@ ("NON_COMPLIANT" :> VIOLATION) @@ ("VIOLATION" :> VIOLATION)

\* A lookup has made a record from a status that is a string or absent, and
\* no closure indicator overrides the status.
StatusMapped ==
    /\ fpc = "done"
    /\ fIn.data # <<>>
    /\ ~(fIn.data[1].compliance_status.given /\ fIn.data[1].compliance_status.isint)
    /\ fIn.program = "TRI" => fIn.data[1].fac_closed_ind # "Y"

RawStatus == IF fIn.data[1].compliance_status.given THEN fIn.data[1].compliance_status.chars ELSE <<>>

\* The vocabulary terms found somewhere inside the raw status, in any case.
TermsInside(chars) ==
    {term \in DOMAIN Classification :
        \E i \in 1..Len(chars), j \in 1..Len(chars) :
            i <= j /\ Text(Upper(SubSeq(chars, i, j))) = term}

\* The vocabulary terms the raw status is equal to, in any case.
TermsEqual(chars) == {term \in DOMAIN Classification : Text(Upper(chars)) = term}

\* C18 as stated: the status is that of a vocabulary term contained in the raw
\* string in any letter case, and UNKNOWN when the string is absent or contains
\* none.
C18_StatusBySubstring ==
    StatusMapped =>
        /\ fOut.kind = "return"
        /\ IF TermsInside(RawStatus) # {}
           THEN fOut.value.status \in {Classification[t] : t \in TermsInside(RawStatus)}
           ELSE fOut.value.status = UNKNOWN

\* C18 as the code has it: the status is that of the vocabulary term the whole
\* raw string equals in any letter case, and UNKNOWN when the string is absent
\* or equals none, also when it contains one.
C18_StatusByWholeString ==
    StatusMapped =>
        /\ fOut.kind = "return"
        /\ IF TermsEqual(RawStatus) # {}
           THEN fOut.value.status \in {Classification[t] : t \in TermsEqual(RawStatus)}
           ELSE fOut.value.status = UNKNOWN

\* A handler record whose status contains COMPLIANT without being equal to it
\* has been mapped to UNKNOWN.
C18_Witness ==
    /\ StatusMapped
    /\ fIn.program = "RCRA"
    /\ TermsInside(RawStatus) = {"COMPLIANT"}
    /\ TermsEqual(RawStatus) = {}
    /\ fOut.kind = "return"
    /\ fOut.value.status = UNKNOWN

(***************************************************************************)
(* Claims about how the three query tools end                              *)
(***************************************************************************)
QueryTools == {"search_facilities", "get_facility_compliance_history", "get_chemical_release_data"}

\* The context each tool puts in front of an upstream failure.
AddedContext ==
    ("search_facilities" :> "Failed to search facilities")
    @@ ("get_facility_compliance_history" :> "Failed to retrieve compliance history")
    @@ ("get_chemical_release_data" :> "Failed to retrieve chemical release data")

\* What the validation of the tool called says about its parameters.
ValidationMessage ==
    CASE tool = "search_facilities" -> validate_search(targs)
      [] tool = "get_facility_compliance_history" -> validate_compliance(targs)
      [] tool = "get_chemical_release_data" ->
            IF validate_releases(targs) # "" THEN validate_releases(targs)
            ELSE get_chemical_releases_check(clean_releases(targs))
      [] OTHER -> ""

\* The EPA client's call failed and the failure reached the tool.
UpstreamFailed == clientResult.kind = "raise"

\* C19: when one of the three query tools is done, an upstream failure has
\* become a plain Exception with the tool's context, neither a ValueError nor
\* a returned value; and a ValueError is the one validation raised, with its
\* message, before any failure upstream.
C19_UpstreamFailureIsGenericException ==
    tool \in QueryTools /\ tpc = "done" =>
        /\ UpstreamFailed =>
              /\ toolResult.kind = "raise"
              /\ toolResult.exc = "Exception"
              /\ toolResult.msg = AddedContext[tool]
        /\ (toolResult.kind = "raise" /\ toolResult.exc = "ValueError") =>
              /\ ~UpstreamFailed
              /\ ValidationMessage # ""
              /\ toolResult.msg = ValidationMessage
        /\ ValidationMessage # "" => toolResult = Raise("ValueError", ValidationMessage)

\* The compliance lookup has failed upstream and the caller got the Exception.
C19_Witness ==
    /\ tool = "get_facility_compliance_history"
    /\ tpc = "done"
    /\ UpstreamFailed
    /\ clientResult.exc = "EPAAPIError"
    /\ toolResult = Raise("Exception", "Failed to retrieve compliance history")

(***************************************************************************)
(* Claims about the by-state batch queries                                 *)
(***************************************************************************)
\* The record carries none of the fields the parsers read.
NoExpectedFields(record) ==
    record.isdict /\ record.id = "" /\ record.name = "" /\ record.state = ""
    /\ record.latitude = None

\* The record is one the program's parser makes an entity of: an object with
\* its identifier, and coordinates in range where the program reads them.
WellFormed(program, record) ==
    /\ record.isdict
    /\ record.id # ""
    /\ program = "TRI" => (record.latitude = None \/ Abs(record.latitude) <= 9000)

EntityId(program, entity) == IF program = "SDWIS" THEN entity.system_id ELSE entity.registry_id

\* C20: a by-state query whose answer arrived returns, in order, exactly the
\* entities of the well-formed records of the batch; the records that do not
\* parse, those without any expected field among them, are left out, and the
\* call does not raise.
C20_UnparsableRecordsOmitted ==
    fpc = "done" /\ fIn.answer.kind = "return" =>
        LET wellFormed == SelectSeq(fIn.answer.value, LAMBDA r : WellFormed(fIn.program, r))
        IN  /\ fOut.kind = "return"
            /\ Len(fOut.value) = Len(wellFormed)
            /\ \A i \in 1..Len(wellFormed) :
                  EntityId(fIn.program, fOut.value[i]) = wellFormed[i].id

(***************************************************************************)
(* Claims about what the location summary counts                           *)
(***************************************************************************)
\* The entity is placed within the summary's radius of its centre.
LiesWithin(summary, entity) ==
    /\ entity.coordinates.present
    /\ haversine_distance(summary.coordinates, entity.coordinates) <= summary.radius_miles

\* The TRI facilities of the state that are placed within the radius.
TriFacilitiesWithin(summary) ==
    {Contribution(2)[i].registry_id :
        i \in {j \in 1..Len(Contribution(2)) : LiesWithin(summary, Contribution(2)[j])}}

\* The facilities that reported a release the TRI branch returned and that
\* are placed within the radius.
ReleasingFacilitiesWithin(summary) ==
    {Contribution(3)[i].facility_id : i \in 1..Len(Contribution(3))}
        \cap TriFacilitiesWithin(summary)

\* C21: every top facility, water system and hazardous site of a returned
\* summary lies within radius_miles of the geocoded coordinates, a facility's
\* distance_miles, when set, is between 0 and radius_miles, and the releases
\* counted are those of facilities within the radius.
C21_SummaryEntitiesWithinRadius ==
    FanOutFinished /\ toolResult.kind = "return" =>
        LET summary == toolResult.value
        IN  /\ \A i \in 1..Len(summary.top_facilities) :
                  /\ LiesWithin(summary, summary.top_facilities[i])
                  /\ summary.top_facilities[i].distance_miles # None =>
                        /\ 0 <= summary.top_facilities[i].distance_miles
                        /\ summary.top_facilities[i].distance_miles <= summary.radius_miles
            /\ \A i \in 1..Len(summary.water_systems) :
                  LiesWithin(summary, summary.water_systems[i])
            /\ \A i \in 1..Len(summary.hazardous_sites) :
                  LiesWithin(summary, summary.hazardous_sites[i])
            /\ summary.summary_stats.facilities_with_releases =
                  Cardinality(ReleasingFacilitiesWithin(summary))

(***************************************************************************)
(* Claims about eviction in GeocodingCache.set (checked under SpecCache)   *)
(***************************************************************************)
\* The keys a cache holds.
CachedKeys(entries) == {entries[i].key : i \in 1..Len(entries)}

\* What get finds under a key: the set of values stored for it.
Retrieved(entries, key) ==
    {entries[i].location_info : i \in {j \in 1..Len(entries) : entries[j].key = key}}

\* The normalized key of the location of the last operation.
NormalizedKey == Text(Strip(Lower(fIn.location)))

\* set has just been called with a new key on a cache holding max_size entries.
SetOfNewKeyOnFullCache ==
    /\ fpc = "set"
    /\ Len(fIn.before) = cacheMaxSize
    /\ NormalizedKey \notin CachedKeys(fIn.before)

\* C22: a set with a new key on a full cache evicts exactly one entry, the one
\* inserted earliest; every other entry is still retrievable with its value,
\* and so is the new one.
C22_FullCacheEvictsOldestOnly ==
    SetOfNewKeyOnFullCache =>
        /\ CachedKeys(fIn.before) \ CachedKeys(cache) = {fIn.before[1].key}
        /\ \A i \in 2..Len(fIn.before) :
              Retrieved(cache, fIn.before[i].key) = {fIn.before[i].location_info}
        /\ Retrieved(cache, NormalizedKey) = {fIn.location_info}
        /\ cache_get(cache, fIn.location) = [hit |-> TRUE, location_info |-> fIn.location_info]

\* A full cache of two entries has taken a third key: the first entry is gone,
\* the second is kept.
C22_Witness ==
    /\ SetOfNewKeyOnFullCache
    /\ cacheMaxSize = 2
    /\ Len(cache) = 2
    /\ cache[1] = fIn.before[2]
    /\ cache[2].key = NormalizedKey
    /\ fIn.before[1].key \notin CachedKeys(cache)

(***************************************************************************)
(* Claims about FRS facilities without a registry_id (under SpecAgg)       *)
(***************************************************************************)
\* C23: a facility of the FRS list whose registry_id is the empty string is
\* still in the output of aggregate_facilities.
C23_FrsFacilityWithoutIdIncluded ==
    apc = "done" =>
        \A i \in 1..Len(aIn.frs) :
            aIn.frs[i].registry_id = "" =>
                \E k \in 1..Len(aOut) :
                    /\ aOut[k].registry_id = ""
                    /\ aOut[k].name = aIn.frs[i].name

(***************************************************************************)
(* Claims about the totals of the compliance history (under SpecTool)      *)
(***************************************************************************)
\* The compliance history tool has returned a history built from the records
\* the compliance client returned.
HistoryReturned ==
    /\ tool = "get_facility_compliance_history"
    /\ tpc = "done"
    /\ clientResult.kind = "return"
    /\ toolResult.kind = "return"

\* The sum of amount(record) over the first n records.
RECURSIVE TotalOfFirst(_, _, _)
TotalOfFirst(records, n, field) ==
    IF n = 0 THEN 0
    ELSE TotalOfFirst(records, n - 1, field)
         + (IF records[n][field] = None THEN 0 ELSE records[n][field])

\* C24: overall_status is VIOLATION when a returned record has status
\* VIOLATION, else COMPLIANT when one is COMPLIANT, else UNKNOWN (also without
\* records); total_violations is the sum of the violation counts, and
\* total_penalties the sum of the non-null penalties, or null without any.
C24_OverallStatusAndTotals ==
    HistoryReturned =>
        LET records == clientResult.value
            history == toolResult.value
            Some(status) == \E i \in 1..Len(records) : records[i].status = status
        IN  /\ history.compliance_records = records
            /\ Some("VIOLATION") => history.overall_status = "VIOLATION"
            /\ (~Some("VIOLATION") /\ Some("COMPLIANT")) =>
                  history.overall_status = "COMPLIANT"
            /\ (~Some("VIOLATION") /\ ~Some("COMPLIANT")) =>
                  history.overall_status = "UNKNOWN"
            /\ history.total_violations = TotalOfFirst(records, Len(records), "violation_count")
            /\ history.total_penalties =
                  IF \E i \in 1..Len(records) : records[i].total_penalties # None
                  THEN TotalOfFirst(records, Len(records), "total_penalties")
                  ELSE None

\* A COMPLIANT RCRA record with a penalty and a VIOLATION TRI record without
\* one have been summed up.
C24_Witness ==
    /\ HistoryReturned
    /\ Len(clientResult.value) = 2
    /\ clientResult.value[1].status = "COMPLIANT"
    /\ clientResult.value[2].status = "VIOLATION"
    /\ toolResult.value.overall_status = "VIOLATION"
    /\ toolResult.value.total_violations = 3
    /\ toolResult.value.total_penalties = 500

(***************************************************************************)
(* Claims about get_compliance_by_registry_id (under SpecRegistry)         *)
(***************************************************************************)
TablesOf == ("RCRA" :> {"rcra.rcra_handler"}) @@ ("TRI" :> {"tri.tri_facility"})

Queried == {fOut.queries[i] : i \in 1..Len(fOut.queries)}

\* The program filter of the call, upper-cased, or "" without one.
ProgramFilter ==
    IF fIn.program.given /\ fIn.program.chars # <<>>
    THEN Text(Upper(fIn.program.chars)) ELSE ""

\* What the lookup of one program comes to on its own: its record, nothing,
\* or a failure.
RcraOutcome == rcra_lookup(fIn.handler, fIn.rcra).result

TriOutcome == tri_lookup(fIn.by_tri_id, fIn.by_registry_id).result

RecordsOf(outcome) == IF outcome.kind = "raise" THEN <<>> ELSE outcome.value

\* C25: with a program filter only records of that program are returned and
\* no table of the other program is queried; without one the RCRA lookup and
\* then the TRI lookup are made, whatever the first comes to, the call does
\* not raise, and the records of the lookups that succeeded are returned.
C25_ProgramFilterAndIndependentLookups ==
    fpc = "done" =>
        /\ ProgramFilter \in DOMAIN TablesOf =>
              /\ Queried \subseteq TablesOf[ProgramFilter]
              /\ fOut.result.kind = "return" =>
                    \A i \in 1..Len(fOut.result.value) :
                        fOut.result.value[i].program = ProgramFilter
        /\ ProgramFilter = "" =>
              /\ fOut.result.kind = "return"
              /\ Queried = {"rcra.rcra_handler", "tri.tri_facility"}
              /\ fOut.queries[1] = "rcra.rcra_handler"
              /\ fOut.queries[Len(fOut.queries)] = "tri.tri_facility"
              /\ fOut.result.value = RecordsOf(RcraOutcome) \o RecordsOf(TriOutcome)

\* Without a filter the RCRA lookup failed and the TRI record came back.
C25_Witness ==
    /\ fpc = "done"
    /\ ProgramFilter = ""
    /\ RcraOutcome.kind = "raise"
    /\ TriOutcome.kind = "return"
    /\ fOut.result.kind = "return"
    /\ Len(fOut.result.value) = 1
    /\ fOut.result.value[1].program = "TRI"

(***************************************************************************)
(* Claims about TRIClient.get_chemical_releases (checked under SpecTri).   *)
(***************************************************************************)
\* The call got rows back from the reporting-form query.
RowsReturned ==
    /\ fpc = "done"
    /\ get_chemical_releases_check(fIn.a) = ""
    /\ fIn.reporting.kind = "return"
    /\ fIn.reporting.value # <<>>

DistinctKeys(field) ==
    {fIn.reporting.value[i][field] : i \in 1..Len(fIn.reporting.value)} \ {""}

LookupCount(table, key) ==
    Cardinality({i \in 1..Len(fOut.queries) :
                    fOut.queries[i] = [table |-> table, key |-> key]})

\* Exactly one lookup against table for each of keys, and for nothing else.
OneLookupPer(table, keys) ==
    /\ \A key \in keys : LookupCount(table, key) = 1
    /\ \A i \in 1..Len(fOut.queries) :
          fOut.queries[i].table = table => fOut.queries[i].key \in keys

FailedLookupsTolerated == fOut.result.kind = "return"

ReturnedReleasesMatchFilters ==
    \A i \in 1..Len(fOut.result.value) :
        LET release == fOut.result.value[i]
        IN  /\ Truthy(fIn.a.cas_number) =>
                  release.cas_number = Text(fIn.a.cas_number.chars)
            /\ Truthy(fIn.a.state) =>
                  /\ release.facility_id \notin fIn.failing.facility
                  /\ TriFacilityTable[release.facility_id].state_abbr
                         = Text(Upper(fIn.a.state.chars))

\* C26 as stated: get_chemical_releases issues one facility, one chemical and
\* one release lookup per distinct key collected from the reporting-form
\* rows, a failed lookup does not fail the call, and every returned release
\* satisfies the cas_number and state filters.
C26_OneLookupPerCollectedKey ==
    RowsReturned =>
        /\ OneLookupPer("tri.tri_facility", DistinctKeys("tri_facility_id"))
        /\ OneLookupPer("tri.tri_chem_info", DistinctKeys("tri_chem_id"))
        /\ OneLookupPer("tri.tri_form_r", DistinctKeys("doc_ctrl_num"))
        /\ FailedLookupsTolerated
        /\ ReturnedReleasesMatchFilters

\* C26 amended: the chemical lookups are issued only when no cas_number is
\* given; with a cas_number the reporting query is joined with the chemical
\* table and no chemical lookup is issued.  The rest is as stated.
C26_ChemicalLookupsOnlyWithoutCasNumber ==
    RowsReturned =>
        /\ OneLookupPer("tri.tri_facility", DistinctKeys("tri_facility_id"))
        /\ OneLookupPer("tri.tri_chem_info",
                        IF Truthy(fIn.a.cas_number) THEN {}
                        ELSE DistinctKeys("tri_chem_id"))
        /\ OneLookupPer("tri.tri_form_r", DistinctKeys("doc_ctrl_num"))
        /\ FailedLookupsTolerated
        /\ ReturnedReleasesMatchFilters

\* Two rows of two facilities, both filters given, a facility lookup failed,
\* and a release is returned.
C26_Witness ==
    /\ RowsReturned
    /\ Len(fIn.reporting.value) = 2
    /\ Truthy(fIn.a.cas_number) /\ Truthy(fIn.a.state)
    /\ fIn.failing.facility # {}
    /\ Cardinality(DistinctKeys("tri_facility_id")) = 2
    /\ fOut.result.value # <<>>

(***************************************************************************)
(* Claims about overlapping geocode_location calls (SpecOverlap).          *)
(***************************************************************************)
SameNormalizedLocation == CacheKey(fIn[1]) = CacheKey(fIn[2])

GeocoderSucceeding ==
    \A p \in Callers : fOut[p].answer.kind \in {"pending", "Location"}

\* C27: two overlapping geocode_location calls for the same normalized
\* location, which is not cached at the start, with the geocoder succeeding,
\* invoke the external geocoder at most once.
C27_GeocoderInvokedAtMostOncePerLocation ==
    (SameNormalizedLocation /\ GeocoderSucceeding) => geocoderCalls <= 1

(***************************************************************************)
(* Claim about GeocodingCache.set on a cached key (SpecCache).             *)
(***************************************************************************)
\* set has just been called with a key the cache already held.
SetOfCachedKey ==
    /\ fpc = "set"
    /\ NormalizedKey \in CachedKeys(fIn.before)

\* C28: a set with a key that is already cached replaces only that key's
\* value: no other entry is evicted and the number of entries is unchanged,
\* also when the cache holds max_size entries.
C28_SetOfCachedKeyReplacesValueOnly ==
    SetOfCachedKey =>
        /\ CachedKeys(cache) = CachedKeys(fIn.before)
        /\ Len(cache) = Len(fIn.before)
        /\ Retrieved(cache, NormalizedKey) = {fIn.location_info}
        /\ \A key \in CachedKeys(fIn.before) \ {NormalizedKey} :
              Retrieved(cache, key) = Retrieved(fIn.before, key)

(***************************************************************************)
(* Claim about the clients of a tool call (SpecClients).                   *)
(***************************************************************************)
\* C29: every EPA client a tool call opened is closed by the time the call
\* returns or raises, also when a fan-out branch or a query failed, and no
\* query is issued on a client after it was closed.
C29_ClientsClosedWhenCallEnds ==
    /\ fpc = "done" => \A c \in ClientNames : fOut.clients[c] # "open"
    /\ fOut.late = {}

\* The summary returned after a fan-out in which a branch raised, with its
\* four clients closed.
C29_Witness ==
    /\ fpc = "done"
    /\ fIn.tool = "get_environmental_summary_by_location"
    /\ Failed(fOut.tasks) # {}
    /\ Finished(fOut.tasks) = 1..5
    /\ \A c \in {"FRSClient", "TRIClient", "SDWISClient", "RCRAClient"} :
          fOut.clients[c] = "closed"

(***************************************************************************)
(* Claim about the violations of the summary (SpecTool).                   *)
(***************************************************************************)
SummaryProduced ==
    /\ tool = SummaryTool
    /\ tpc = "done"
    /\ toolResult.kind = "return"

NoDistArgs == [facilities |-> <<>>, center |-> NoCoordinates, max_distance_miles |-> 0]

NoAggArgs == [frs |-> <<>>, tri |-> <<>>, rcra |-> <<>>, sdwis |-> <<>>]

HttpInit ==
    /\ qpc = "idle"
    /\ qargs = NoArgs
    /\ url = ""
    /\ attempts = <<>>
    /\ execResult = Pending
    /\ tableResult = Pending
    /\ dpc = "idle" /\ dIn = NoDistArgs /\ dOut = <<>>
    /\ apc = "idle" /\ aIn = NoAggArgs /\ aOut = <<>>
    /\ tpc = "idle" /\ tool = "" /\ targs = NoToolArgs /\ cache = <<>>
    /\ geoOutcome = NoGeocoding /\ locationInfo = NoLocationInfo
    /\ geocoderCalls = 0 /\ epaQueries = 0 /\ frsFilters = <<>> /\ branches = NoBranches
    /\ clientResult = Pending
    /\ facilityInfo = NoFacilityInfo /\ toolResult = Pending
    /\ cacheMaxSize = max_size
    /\ fpc = "idle" /\ fIn = <<>> /\ fOut = <<>>

HttpNext == QueryTableCall \/ ExecuteAttempt

SpecHttp == HttpInit /\ [][HttpNext]_vars

DistInit ==
    /\ dpc = "ready"
    /\ dIn \in [facilities : SeqsUpTo(DistPool, MaxFiltered),
                center : {Coordinates(4071), Coordinates(4085)},
                max_distance_miles : {1, 48, 50, 1000}]
    /\ dOut = <<>>
    /\ qpc = "idle" /\ qargs = NoArgs /\ url = "" /\ attempts = <<>>
    /\ execResult = Pending /\ tableResult = Pending
    /\ apc = "idle" /\ aIn = NoAggArgs /\ aOut = <<>>
    /\ tpc = "idle" /\ tool = "" /\ targs = NoToolArgs /\ cache = <<>>
    /\ geoOutcome = NoGeocoding /\ locationInfo = NoLocationInfo
    /\ geocoderCalls = 0 /\ epaQueries = 0 /\ frsFilters = <<>> /\ branches = NoBranches
    /\ clientResult = Pending
    /\ facilityInfo = NoFacilityInfo /\ toolResult = Pending
    /\ cacheMaxSize = max_size
    /\ fpc = "idle" /\ fIn = <<>> /\ fOut = <<>>

DistNext == FilterByDistance

SpecDist == DistInit /\ [][DistNext]_vars

AggInit ==
    /\ apc = "ready"
    /\ aIn \in [frs : SeqsUpTo(FrsPool, MaxFrs), tri : SeqsUpTo(TriPool, MaxTri),
                rcra : SeqsUpTo(RcraPool, MaxRcra),
                sdwis : SeqsUpTo(SdwisPool, MaxSdwis)]
    /\ aOut = <<>>
    /\ qpc = "idle" /\ qargs = NoArgs /\ url = "" /\ attempts = <<>>
    /\ execResult = Pending /\ tableResult = Pending
    /\ dpc = "idle" /\ dIn = NoDistArgs /\ dOut = <<>>
    /\ tpc = "idle" /\ tool = "" /\ targs = NoToolArgs /\ cache = <<>>
    /\ geoOutcome = NoGeocoding /\ locationInfo = NoLocationInfo
    /\ geocoderCalls = 0 /\ epaQueries = 0 /\ frsFilters = <<>> /\ branches = NoBranches
    /\ clientResult = Pending
    /\ facilityInfo = NoFacilityInfo /\ toolResult = Pending
    /\ cacheMaxSize = max_size
    /\ fpc = "idle" /\ fIn = <<>> /\ fOut = <<>>

AggNext == AggregateFacilities

SpecAgg == AggInit /\ [][AggNext]_vars

ToolInit ==
    /\ tpc = "idle" /\ tool = "" /\ targs = NoToolArgs /\ cache = <<>>
    /\ geoOutcome = NoGeocoding /\ locationInfo = NoLocationInfo
    /\ geocoderCalls = 0 /\ epaQueries = 0 /\ frsFilters = <<>> /\ branches = NoBranches
    /\ clientResult = Pending
    /\ facilityInfo = NoFacilityInfo /\ toolResult = Pending
    /\ cacheMaxSize = max_size
    /\ fpc = "idle" /\ fIn = <<>> /\ fOut = <<>>
    /\ qpc = "idle" /\ qargs = NoArgs /\ url = "" /\ attempts = <<>>
    /\ execResult = Pending /\ tableResult = Pending
    /\ dpc = "idle" /\ dIn = NoDistArgs /\ dOut = <<>>
    /\ apc = "idle" /\ aIn = NoAggArgs /\ aOut = <<>>

ToolNext ==
    \/ CallSummary \/ Geocode \/ BranchComplete \/ Gather
    \/ CallSearch \/ SearchComplete
    \/ CallCompliance \/ FrsLookupComplete \/ ComplianceLookupComplete
    \/ CallReleases \/ ReleasesComplete
    \/ ToolReturn

SpecTool == ToolInit /\ [][ToolNext]_vars

SumInit ==
    /\ fpc = "ready"
    /\ fIn \in SeqsUpTo(ReleasePool, MaxReleases)
    /\ fOut = <<>>
    /\ cacheMaxSize = max_size
    /\ tpc = "idle" /\ tool = "" /\ targs = NoToolArgs /\ cache = <<>>
    /\ geoOutcome = NoGeocoding /\ locationInfo = NoLocationInfo
    /\ geocoderCalls = 0 /\ epaQueries = 0 /\ frsFilters = <<>> /\ branches = NoBranches
    /\ clientResult = Pending
    /\ facilityInfo = NoFacilityInfo /\ toolResult = Pending
    /\ qpc = "idle" /\ qargs = NoArgs /\ url = "" /\ attempts = <<>>
    /\ execResult = Pending /\ tableResult = Pending
    /\ dpc = "idle" /\ dIn = NoDistArgs /\ dOut = <<>>
    /\ apc = "idle" /\ aIn = NoAggArgs /\ aOut = <<>>

SumNext == SummarizeReleases

SpecSum == SumInit /\ [][SumNext]_vars

FormatInit ==
    /\ fpc = "ready"
    /\ fIn \in [facilities : {RankedFacilities(n, tags) :
                                n \in RankedLengths,
                                tags \in {"FRS", "mixed", "untagged"}},
                water_systems : {<<>>, WaterByState},
                water_violations : SeqsUpTo(ViolationPool, MaxViolations),
                chemical_releases : {<<>>, TriReleases},
                hazardous_sites : SeqsUpTo({RcraByState[1]}, MaxSites)]
    /\ fOut = <<>>
    /\ cacheMaxSize = max_size
    /\ tpc = "idle" /\ tool = "" /\ targs = NoToolArgs /\ cache = <<>>
    /\ geoOutcome = NoGeocoding /\ locationInfo = NoLocationInfo
    /\ geocoderCalls = 0 /\ epaQueries = 0 /\ frsFilters = <<>> /\ branches = NoBranches
    /\ clientResult = Pending
    /\ facilityInfo = NoFacilityInfo /\ toolResult = Pending
    /\ qpc = "idle" /\ qargs = NoArgs /\ url = "" /\ attempts = <<>>
    /\ execResult = Pending /\ tableResult = Pending
    /\ dpc = "idle" /\ dIn = NoDistArgs /\ dOut = <<>>
    /\ apc = "idle" /\ aIn = NoAggArgs /\ aOut = <<>>

FormatNext == FormatEnvironmentalSummary

SpecFormat == FormatInit /\ [][FormatNext]_vars

CacheInit ==
    /\ cache = <<>>
    /\ cacheMaxSize \in 1..MaxCacheSize
    /\ fpc = "ready" /\ fIn = <<>> /\ fOut = <<>>
    /\ tpc = "idle" /\ tool = "" /\ targs = NoToolArgs
    /\ geoOutcome = NoGeocoding /\ locationInfo = NoLocationInfo
    /\ geocoderCalls = 0 /\ epaQueries = 0 /\ frsFilters = <<>> /\ branches = NoBranches
    /\ clientResult = Pending
    /\ facilityInfo = NoFacilityInfo /\ toolResult = Pending
    /\ qpc = "idle" /\ qargs = NoArgs /\ url = "" /\ attempts = <<>>
    /\ execResult = Pending /\ tableResult = Pending
    /\ dpc = "idle" /\ dIn = NoDistArgs /\ dOut = <<>>
    /\ apc = "idle" /\ aIn = NoAggArgs /\ aOut = <<>>

CacheNext == CacheSet \/ CacheGet \/ CacheClear

SpecCache == CacheInit /\ [][CacheNext]_vars

GeoInit ==
    /\ cache = <<>>
    /\ cacheMaxSize = max_size
    /\ fpc = "ready"
    /\ fIn = [location |-> <<>>, before |-> <<>>, succeeded |-> {}]
    /\ fOut = [result |-> Pending, invoked |-> FALSE, succeeded |-> {}]
    /\ tpc = "idle" /\ tool = "" /\ targs = NoToolArgs
    /\ geoOutcome = NoGeocoding /\ locationInfo = NoLocationInfo
    /\ geocoderCalls = 0 /\ epaQueries = 0 /\ frsFilters = <<>> /\ branches = NoBranches
    /\ clientResult = Pending
    /\ facilityInfo = NoFacilityInfo /\ toolResult = Pending
    /\ qpc = "idle" /\ qargs = NoArgs /\ url = "" /\ attempts = <<>>
    /\ execResult = Pending /\ tableResult = Pending
    /\ dpc = "idle" /\ dIn = NoDistArgs /\ dOut = <<>>
    /\ apc = "idle" /\ aIn = NoAggArgs /\ aOut = <<>>

GeoNext == GeocodeLocation \/ ClearGeocodingCache

SpecGeo == GeoInit /\ [][GeoNext]_vars

ComplianceInit ==
    /\ fpc = "ready"
    /\ fIn \in [program : {"RCRA", "TRI"}, data : ComplianceData]
    /\ fOut = <<>>
    /\ cacheMaxSize = max_size
    /\ tpc = "idle" /\ tool = "" /\ targs = NoToolArgs /\ cache = <<>>
    /\ geoOutcome = NoGeocoding /\ locationInfo = NoLocationInfo
    /\ geocoderCalls = 0 /\ epaQueries = 0 /\ frsFilters = <<>> /\ branches = NoBranches
    /\ clientResult = Pending
    /\ facilityInfo = NoFacilityInfo /\ toolResult = Pending
    /\ qpc = "idle" /\ qargs = NoArgs /\ url = "" /\ attempts = <<>>
    /\ execResult = Pending /\ tableResult = Pending
    /\ dpc = "idle" /\ dIn = NoDistArgs /\ dOut = <<>>
    /\ apc = "idle" /\ aIn = NoAggArgs /\ aOut = <<>>

ComplianceNext == GetCompliance

SpecCompliance == ComplianceInit /\ [][ComplianceNext]_vars

BatchInit ==
    /\ fpc = "ready"
    /\ fIn \in [program : {"FRS", "TRI", "RCRA", "SDWIS"},
                answer : {Raise("EPAAPIError", "Query failed")}
                         \cup {Return(data) : data \in SeqsUpTo(RecordPool, MaxBatch)}]
    /\ fOut = <<>>
    /\ cacheMaxSize = max_size
    /\ tpc = "idle" /\ tool = "" /\ targs = NoToolArgs /\ cache = <<>>
    /\ geoOutcome = NoGeocoding /\ locationInfo = NoLocationInfo
    /\ geocoderCalls = 0 /\ epaQueries = 0 /\ frsFilters = <<>> /\ branches = NoBranches
    /\ clientResult = Pending
    /\ facilityInfo = NoFacilityInfo /\ toolResult = Pending
    /\ qpc = "idle" /\ qargs = NoArgs /\ url = "" /\ attempts = <<>>
    /\ execResult = Pending /\ tableResult = Pending
    /\ dpc = "idle" /\ dIn = NoDistArgs /\ dOut = <<>>
    /\ apc = "idle" /\ aIn = NoAggArgs /\ aOut = <<>>

BatchNext == GetByState

SpecBatch == BatchInit /\ [][BatchNext]_vars

RegistryInit ==
    /\ fpc = "ready"
    /\ fIn \in [program : LookupPrograms, handler : HandlerAnswers, rcra : RcraAnswers,
                by_tri_id : TriAnswers, by_registry_id : TriAnswers]
    /\ fOut = <<>>
    /\ cacheMaxSize = max_size
    /\ tpc = "idle" /\ tool = "" /\ targs = NoToolArgs /\ cache = <<>>
    /\ geoOutcome = NoGeocoding /\ locationInfo = NoLocationInfo
    /\ geocoderCalls = 0 /\ epaQueries = 0 /\ frsFilters = <<>> /\ branches = NoBranches
    /\ clientResult = Pending
    /\ facilityInfo = NoFacilityInfo /\ toolResult = Pending
    /\ qpc = "idle" /\ qargs = NoArgs /\ url = "" /\ attempts = <<>>
    /\ execResult = Pending /\ tableResult = Pending
    /\ dpc = "idle" /\ dIn = NoDistArgs /\ dOut = <<>>
    /\ apc = "idle" /\ aIn = NoAggArgs /\ aOut = <<>>

RegistryNext == GetComplianceByRegistryId

SpecRegistry == RegistryInit /\ [][RegistryNext]_vars

TriInit ==
    /\ fpc = "ready"
    /\ fIn \in [a : ReleaseArgs,
                reporting : {QueryFailed} \cup {Return(rows) : rows \in SeqsUpTo(RowPool, MaxRows)},
                failing : FailingLookups]
    /\ fOut = <<>>
    /\ cacheMaxSize = max_size
    /\ tpc = "idle" /\ tool = "" /\ targs = NoToolArgs /\ cache = <<>>
    /\ geoOutcome = NoGeocoding /\ locationInfo = NoLocationInfo
    /\ geocoderCalls = 0 /\ epaQueries = 0 /\ frsFilters = <<>> /\ branches = NoBranches
    /\ clientResult = Pending
    /\ facilityInfo = NoFacilityInfo /\ toolResult = Pending
    /\ qpc = "idle" /\ qargs = NoArgs /\ url = "" /\ attempts = <<>>
    /\ execResult = Pending /\ tableResult = Pending
    /\ dpc = "idle" /\ dIn = NoDistArgs /\ dOut = <<>>
    /\ apc = "idle" /\ aIn = NoAggArgs /\ aOut = <<>>

TriNext == GetChemicalReleases

SpecTri == TriInit /\ [][TriNext]_vars

OverlapInit ==
    /\ cache = <<>>
    /\ cacheMaxSize = max_size
    /\ fpc = [p \in Callers |-> "start"]
    /\ fIn \in [Callers -> CacheLocations]
    /\ fOut = [p \in Callers |-> CallState(NoAnswer, Pending)]
    /\ tpc = "idle" /\ tool = "" /\ targs = NoToolArgs
    /\ geoOutcome = NoGeocoding /\ locationInfo = NoLocationInfo
    /\ geocoderCalls = 0 /\ epaQueries = 0 /\ frsFilters = <<>> /\ branches = NoBranches
    /\ clientResult = Pending
    /\ facilityInfo = NoFacilityInfo /\ toolResult = Pending
    /\ qpc = "idle" /\ qargs = NoArgs /\ url = "" /\ attempts = <<>>
    /\ execResult = Pending /\ tableResult = Pending
    /\ dpc = "idle" /\ dIn = NoDistArgs /\ dOut = <<>>
    /\ apc = "idle" /\ aIn = NoAggArgs /\ aOut = <<>>

OverlapNext == \E p \in Callers : CheckCache(p) \/ RunInExecutor(p) \/ GeocoderAnswered(p)

SpecOverlap == OverlapInit /\ [][OverlapNext]_vars

ClientsInit ==
    /\ fpc = "idle"
    /\ fIn = [tool |-> "", block |-> 0]
    /\ fOut = NoLifecycle
    /\ cacheMaxSize = max_size
    /\ tpc = "idle" /\ tool = "" /\ targs = NoToolArgs /\ cache = <<>>
    /\ geoOutcome = NoGeocoding /\ locationInfo = NoLocationInfo
    /\ geocoderCalls = 0 /\ epaQueries = 0 /\ frsFilters = <<>> /\ branches = NoBranches
    /\ clientResult = Pending
    /\ facilityInfo = NoFacilityInfo /\ toolResult = Pending
    /\ qpc = "idle" /\ qargs = NoArgs /\ url = "" /\ attempts = <<>>
    /\ execResult = Pending /\ tableResult = Pending
    /\ dpc = "idle" /\ dIn = NoDistArgs /\ dOut = <<>>
    /\ apc = "idle" /\ aIn = NoAggArgs /\ aOut = <<>>

ClientsNext == CallTool \/ EnterClients \/ IssueQuery \/ QueryComplete \/ LeaveBlock

SpecClients == ClientsInit /\ [][ClientsNext]_vars

=============================================================================
